---- MODULE Spec2Model ----
(***************************************************************************)
(* Text Anchor & Re-Highlight Engine of the Website Highlight Saver        *)
(* content script: HighlightSaver (content/content.js) with DOMUtils       *)
(* (content/utils/dom-utils.js), EventUtils (content/utils/event-utils.js) *)
(* and the range / cache methods of the single-file HighlightSaver         *)
(* (unnamed/part_003) that the modular orchestrator delegates to.          *)
(*                                                                         *)
(* Strings are sequences of one-character strings.  The document is a      *)
(* sequence of node records indexed by node identity; a node that left the *)
(* tree keeps its record (parent = 0), because caches and stored ranges    *)
(* keep references to it.  Time is counted in units of 30 s.               *)
(*                                                                         *)
(* A local result that the code reads several times (const x = f(...))     *)
(* is bound once, as x \in {f(...)}, and the value of the statement is     *)
(* the one element of the set built from it.                               *)
(***************************************************************************)
EXTENDS Integers, Sequences, FiniteSets, TLC

\* ------------------------------------------------------------------ bounds
MaxTime == 6             \* last clock value (StartTime + 1 unit)
MaxSaves == 1            \* save requests issued in one run
MaxSelections == 1       \* selections processed in one run
MaxRenders == 2          \* re-renders (init + visibility restorations)
MaxMutations == 1        \* node replacements performed by the page
MaxLeaves == 11          \* leaves of a locator test document
ResolverLeaves == 3      \* leaves of a resolver test document
MaxResolves == 1         \* calls of the resolver in one run
MaxCacheTime == 10       \* last clock value of the cache runs
MaxSummaryWrites == 23   \* summaries cached in one run
MaxChunks == 11          \* re-render chunks that cache candidates in one run
MaxItems == 26           \* longest list handed to processInChunks alone
MaxEvents == 3           \* mouseup/keyup events in one run
MaxClock == 18           \* last clock value of the selection handler runs
MaxRequests == 3         \* summarize requests in one run
MaxSummarizeTime == 16   \* last clock value of the summarization runs
NumKeys == 2             \* fingerprint keys requested
MaxRetryClock == 63      \* last clock value of the deep-link runs
MaxMessages == 3         \* requests to the background service
MaxDay == 367            \* last day of the background runs

\* ------------------------------------------------------- program constants
StartTime == 5                   \* Date.now() at construction, in units
CacheValidityDuration == 1       \* 30000 ms
ChunkSize == 5
MaxShortMatches == 10
MaxLongMatches == 5
ShortLength == 3
MinTrimmedLength == 2
SurroundingLimit == 200
ContextRadius == 50
MaxSelectionLength == 1000
MaxTextNodesCache == 50          \* maxTextNodesCache
MaxSummaryCacheSize == 20        \* maxSummaryCacheSize
SummaryValidity == 10            \* 300000 ms
CleanupPeriod == 4               \* 120000 ms
AllTextNodesKey == 0             \* the key "all_text_nodes"
SelectionThrottleDelay == 3      \* 150 ms, in units of 50 ms
MinSelectionInterval == 2        \* 100 ms
StartClock == 10                 \* Date.now() when the handlers are bound
NoTimeout == 0                   \* selectionTimeout = null
MaxAttempts == 5                 \* maxAttempts
RetryDelay == 10                 \* 500 ms, in units of 50 ms
MaxStoredHighlights == 1000      \* highlights.splice(1000)
KeyTextLength == 100             \* highlight.text.substring(0, 100)
DaysToKeep == 365                \* daysToKeep
StartDay == DaysToKeep + 1

Body == 1
NoNode == 0

\* ------------------------------------------------------------------ strings
Whitespace == {" "}

RECURSIVE TrimStart(_)
TrimStart(s) ==
  IF s = <<>> THEN s
  ELSE IF Head(s) \in Whitespace THEN TrimStart(Tail(s)) ELSE s

RECURSIVE TrimEnd(_)
TrimEnd(s) ==
  IF s = <<>> THEN s
  ELSE IF s[Len(s)] \in Whitespace THEN TrimEnd(SubSeq(s, 1, Len(s) - 1)) ELSE s

\* String.prototype.trim
Trim(s) == TrimEnd(TrimStart(s))

\* String.prototype.substring(from, to) with 0-based, clamped arguments
Substring(s, from, to) ==
  LET f == IF from < 0 THEN 0 ELSE IF from > Len(s) THEN Len(s) ELSE from
      t == IF to < 0 THEN 0 ELSE IF to > Len(s) THEN Len(s) ELSE to
  IN IF f <= t THEN SubSeq(s, f + 1, t) ELSE SubSeq(s, t + 1, f)

MatchesAt(s, t, i) == i + Len(t) <= Len(s) /\ SubSeq(s, i + 1, i + Len(t)) = t

\* String.prototype.indexOf: 0-based index of the first occurrence, or -1
IndexOfText(s, t) ==
  IF \E i \in 0..Len(s) : MatchesAt(s, t, i)
  THEN CHOOSE i \in 0..Len(s) :
         MatchesAt(s, t, i) /\ \A j \in 0..(i - 1) : ~MatchesAt(s, t, j)
  ELSE -1

\* String.prototype.includes
Includes(s, t) == IndexOfText(s, t) # -1

\* ---------------------------------------------------------------- the tree
IsText(d, n) == d[n].kind = "text"
IsMarker(d, n) == d[n].kind = "marker"

TextNode(data, parent) ==
  [kind |-> "text", data |-> data, kids |-> <<>>, parent |-> parent, hid |-> 0]

ElemNode(kind, kids, parent, hid) ==
  [kind |-> kind, data |-> <<>>, kids |-> kids, parent |-> parent, hid |-> hid]

\* document.contains(node)
RECURSIVE Contains(_, _)
Contains(d, n) ==
  IF n = Body THEN TRUE
  ELSE IF d[n].parent = NoNode THEN FALSE
  ELSE Contains(d, d[n].parent)

\* history: the listed nodes that are outside the document
Stale(d, nodes) == {nodes[i] : i \in {j \in 1..Len(nodes) : ~Contains(d, nodes[j])}}

\* inclusive ancestor relation
RECURSIVE IsInclusiveAncestor(_, _, _)
IsInclusiveAncestor(d, a, n) ==
  IF a = n THEN TRUE
  ELSE IF d[n].parent = NoNode THEN FALSE
  ELSE IsInclusiveAncestor(d, a, d[n].parent)

\* Node.textContent
RECURSIVE TextContent(_, _)
RECURSIVE TextOfKids(_, _)
TextContent(d, n) ==
  IF IsText(d, n) THEN d[n].data ELSE TextOfKids(d, d[n].kids)
TextOfKids(d, ks) ==
  IF ks = <<>> THEN <<>>
  ELSE TextContent(d, Head(ks)) \o TextOfKids(d, Tail(ks))

\* the text nodes below n in document order (TreeWalker, SHOW_TEXT)
RECURSIVE TextNodesOf(_, _)
RECURSIVE TextNodesOfKids(_, _)
TextNodesOf(d, n) ==
  IF IsText(d, n) THEN <<n>> ELSE TextNodesOfKids(d, d[n].kids)
TextNodesOfKids(d, ks) ==
  IF ks = <<>> THEN <<>>
  ELSE TextNodesOf(d, Head(ks)) \o TextNodesOfKids(d, Tail(ks))

\* document.querySelectorAll(".highlight-saver-saved") below n, document order
RECURSIVE MarkersOf(_, _)
RECURSIVE MarkersOfKids(_, _)
MarkersOf(d, n) ==
  IF IsText(d, n) THEN <<>>
  ELSE (IF IsMarker(d, n) THEN <<n>> ELSE <<>>) \o MarkersOfKids(d, d[n].kids)
MarkersOfKids(d, ks) ==
  IF ks = <<>> THEN <<>>
  ELSE MarkersOf(d, Head(ks)) \o MarkersOfKids(d, Tail(ks))

QuerySavedHighlights(d) == MarkersOfKids(d, d[Body].kids)

SeqToSet(s) == {s[i] : i \in 1..Len(s)}

PositionIn(s, x) == CHOOSE i \in 1..Len(s) : s[i] = x

RemoveAt(s, i) == SubSeq(s, 1, i - 1) \o SubSeq(s, i + 1, Len(s))

InsertAtIndex(s, i, x) == SubSeq(s, 1, i - 1) \o <<x>> \o SubSeq(s, i, Len(s))

\* detach n from its parent (no effect on a node without parent)
Detach(d, n) ==
  LET p == d[n].parent
  IN IF p = NoNode THEN d
     ELSE [d EXCEPT ![p].kids = RemoveAt(@, PositionIn(@, n)),
                    ![n].parent = NoNode]

\* parent.insertBefore(n, child at 1-based position i); i = Len + 1 appends
InsertChildAt(d, p, i, n) ==
  LET d1 == Detach(d, n)
  IN [d1 EXCEPT ![p].kids = InsertAtIndex(@, i, n), ![n].parent = p]

\* parent.replaceChild(new, old)
ReplaceChild(d, new, old) ==
  LET p == d[old].parent
      i == PositionIn(d[p].kids, old)
  IN [d EXCEPT ![p].kids = [@ EXCEPT ![i] = new],
               ![new].parent = p,
               ![old].parent = NoNode]

\* Node.normalize on the children of p: empty text nodes are removed and each
\* run of adjacent text nodes is merged into its first node
RECURSIVE MergeTextKids(_, _, _, _)
MergeTextKids(d, p, ks, out) ==
  IF ks = <<>> THEN [d EXCEPT ![p].kids = out]
  ELSE LET k == Head(ks)
       IN IF ~IsText(d, k)
          THEN MergeTextKids(d, p, Tail(ks), Append(out, k))
          ELSE IF d[k].data = <<>>
          THEN MergeTextKids([d EXCEPT ![k].parent = NoNode], p, Tail(ks), out)
          ELSE IF out # <<>> /\ IsText(d, out[Len(out)])
          THEN MergeTextKids([d EXCEPT ![out[Len(out)]].data = @ \o d[k].data,
                                       ![k].parent = NoNode],
                             p, Tail(ks), out)
          ELSE MergeTextKids(d, p, Tail(ks), Append(out, k))

RECURSIVE Normalize(_, _)
RECURSIVE NormalizeEach(_, _)
Normalize(d, p) ==
  IF IsText(d, p) THEN d
  ELSE LET d1 == MergeTextKids(d, p, d[p].kids, <<>>)
       IN NormalizeEach(d1, d1[p].kids)
NormalizeEach(d, ks) ==
  IF ks = <<>> THEN d ELSE NormalizeEach(Normalize(d, Head(ks)), Tail(ks))

\* ----------------------------------------------------------------- DOMUtils
\* createHighlightSpan: a detached marker element tagged with highlight.id;
\* its text child is created only for a text that is not blank.
\* The span is node Len(d) + 1 of the result.
createHighlightSpan(d, id, text) ==
  LET span == Len(d) + 1
      d1 == Append(d, ElemNode("marker", <<>>, NoNode, id))
  IN IF text # <<>> /\ Trim(text) # <<>>
     THEN Append([d1 EXCEPT ![span].kids = <<span + 1>>], TextNode(text, span))
     ELSE d1

\* markTextInNode(textNode, text, index, highlight): result [dom, threw, span]
\* A text node without parent makes parent.insertBefore a TypeError, which is
\* raised before the tree is touched.
markTextInNode(d, textNode, text, index, id) ==
  IF d[textNode].parent = NoNode
  THEN [dom |-> d, threw |-> TRUE, span |-> NoNode]
  ELSE LET content == d[textNode].data
           before == Substring(content, 0, index)
           after == Substring(content, index + Len(text), Len(content))
           parent == d[textNode].parent
           span == Len(d) + 1
           d1 == createHighlightSpan(d, id, text)
           d2 == IF before # <<>>
                 THEN InsertChildAt(Append(d1, TextNode(before, NoNode)), parent,
                                    PositionIn(d1[parent].kids, textNode),
                                    Len(d1) + 1)
                 ELSE d1
           d3 == InsertChildAt(d2, parent,
                               PositionIn(d2[parent].kids, textNode) + 1, span)
           d4 == IF after # <<>>
                 THEN InsertChildAt(Append(d3, TextNode(after, NoNode)), parent,
                                    PositionIn(d3[parent].kids, span) + 1,
                                    Len(d3) + 1)
                 ELSE d3
       IN [dom |-> Detach(d4, textNode), threw |-> FALSE, span |-> span]

\* removeExistingHighlightsBatch, second loop: each collected element that has
\* a parent is replaced by its text node; pairs are <<element, textNode>>
RECURSIVE ReplaceCollected(_, _)
ReplaceCollected(d, pairs) ==
  IF pairs = <<>> THEN d
  ELSE LET el == Head(pairs)[1]
           tn == Head(pairs)[2]
       IN ReplaceCollected(IF d[el].parent # NoNode THEN ReplaceChild(d, tn, el)
                           ELSE d,
                           Tail(pairs))

\* third loop: normalize the parent of every collected element that still has
\* one (parentNode is read from the replaced element itself)
RECURSIVE NormalizeParents(_, _)
NormalizeParents(d, els) ==
  IF els = <<>> THEN d
  ELSE NormalizeParents(IF d[Head(els)].parent # NoNode
                        THEN Normalize(d, d[Head(els)].parent)
                        ELSE d,
                        Tail(els))

\* first loop: one new text node per listed element that has a parent,
\* holding the element's textContent at collection time
RECURSIVE CollectTextNodes(_, _, _)
CollectTextNodes(d, d0, els) ==
  IF els = <<>> THEN [dom |-> d, pairs |-> <<>>]
  ELSE LET el == Head(els)
       IN IF d0[el].parent # NoNode
          THEN LET r == CollectTextNodes(Append(d, TextNode(TextContent(d0, el), NoNode)),
                                         d0, Tail(els))
               IN [dom |-> r.dom, pairs |-> <<<<el, Len(d) + 1>>>> \o r.pairs]
          ELSE CollectTextNodes(d, d0, Tail(els))

RemoveListed(d, els) ==
  LET c == CollectTextNodes(d, d, els)
      d1 == ReplaceCollected(c.dom, c.pairs)
      collected == [i \in 1..Len(c.pairs) |-> c.pairs[i][1]]
  IN NormalizeParents(d1, collected)

\* the variant of the single-file version: the element list is the snapshot
\* kept in domCache, refreshed by updateDomCache only every 30 s
removeExistingHighlightsBatchSnapshot(d, dc) ==
  RemoveListed(d, IF dc.has THEN dc.existingHighlights ELSE QuerySavedHighlights(d))

\* DOMUtils.removeExistingHighlightsBatch: the list is queried at every call
removeExistingHighlightsBatch(d, dc) == RemoveListed(d, QuerySavedHighlights(d))

\* getAllTextNodes: the Node Index, one cache entry with a validity window.
\* idx is the entry ([has, nodes, timestamp]); result [nodes, idx, walked],
\* walked telling whether the call traversed the tree
AcceptedByIndex(d, n) == Len(Trim(d[n].data)) >= MinTrimmedLength

RECURSIVE IndexWalk(_, _)
IndexWalk(d, ns) ==
  IF ns = <<>> THEN <<>>
  ELSE (IF AcceptedByIndex(d, Head(ns)) THEN <<Head(ns)>> ELSE <<>>)
       \o IndexWalk(d, Tail(ns))

\* a Node Index that compares the age of the entry the wrong way round and
\* so never serves a young entry
getAllTextNodesServingOldOnly(d, idx, now) ==
  IF idx.has /\ now - idx.timestamp > CacheValidityDuration
  THEN [nodes |-> idx.nodes, idx |-> idx, walked |-> FALSE]
  ELSE LET textNodes == IndexWalk(d, TextNodesOf(d, Body))
       IN [nodes |-> textNodes,
           idx |-> [has |-> TRUE, nodes |-> textNodes, timestamp |-> now],
           walked |-> TRUE]

getAllTextNodes(d, idx, now) ==
  IF idx.has /\ now - idx.timestamp < CacheValidityDuration
  THEN [nodes |-> idx.nodes, idx |-> idx, walked |-> FALSE]
  ELSE LET textNodes == IndexWalk(d, TextNodesOf(d, Body))
       IN [nodes |-> textNodes,
           idx |-> [has |-> TRUE, nodes |-> textNodes, timestamp |-> now],
           walked |-> TRUE]

\* the TreeWalker of the short path rejects leaves shorter than the fragment
RECURSIVE ShortWalk(_, _, _)
ShortWalk(d, ns, searchLength) ==
  IF ns = <<>> THEN <<>>
  ELSE (IF Len(d[Head(ns)].data) < searchLength THEN <<>> ELSE <<Head(ns)>>)
       \o ShortWalk(d, Tail(ns), searchLength)

\* a scan that tests the cap after the push instead of before it
RECURSIVE ScanMatchesOffByOne(_, _, _, _, _)
ScanMatchesOffByOne(d, ns, searchText, found, cap) ==
  IF ns = <<>> \/ Len(found) > cap THEN found
  ELSE ScanMatchesOffByOne(d, Tail(ns), searchText,
                           IF Includes(d[Head(ns)].data, searchText)
                           THEN Append(found, Head(ns)) ELSE found,
                           cap)

\* the scan loops of findTextNodesOptimized: matching leaves are pushed in
\* order until the cap is reached
RECURSIVE ScanMatches(_, _, _, _, _)
ScanMatches(d, ns, searchText, found, cap) ==
  IF ns = <<>> \/ Len(found) >= cap THEN found
  ELSE ScanMatches(d, Tail(ns), searchText,
                   IF Includes(d[Head(ns)].data, searchText)
                   THEN Append(found, Head(ns)) ELSE found,
                   cap)

\* findTextNodesOptimized(searchText): result [nodes, idx, walked]
findTextNodesOptimized(d, idx, now, searchText) ==
  IF Len(searchText) < ShortLength
  THEN LET walked == ShortWalk(d, TextNodesOf(d, Body), Len(searchText))
       IN [nodes |-> ScanMatches(d, walked, searchText, <<>>, MaxShortMatches),
           idx |-> idx, walked |-> FALSE]
  ELSE LET all == getAllTextNodes(d, idx, now)
       IN [nodes |-> ScanMatches(d, all.nodes, searchText, <<>>, MaxLongMatches),
           idx |-> all.idx, walked |-> all.walked]

\* --------------------------------------------------------------- the ranges
NodeLength(d, n) == IF IsText(d, n) THEN Len(d[n].data) ELSE Len(d[n].kids)

RECURSIVE CommonAncestor(_, _, _)
CommonAncestor(d, a, b) ==
  IF IsInclusiveAncestor(d, a, b) THEN a ELSE CommonAncestor(d, d[a].parent, b)

\* the child of ancestor a on the path to its descendant n
RECURSIVE ChildToward(_, _, _)
ChildToward(d, a, n) ==
  IF d[n].parent = a THEN n ELSE ChildToward(d, a, d[n].parent)

FirstPartial(d, sn, en) ==
  IF IsInclusiveAncestor(d, sn, en) THEN NoNode
  ELSE ChildToward(d, CommonAncestor(d, sn, en), sn)

LastPartial(d, sn, en) ==
  IF IsInclusiveAncestor(d, en, sn) THEN NoNode
  ELSE ChildToward(d, CommonAncestor(d, sn, en), en)

RECURSIVE DetachAll(_, _)
DetachAll(d, ns) ==
  IF ns = <<>> THEN d ELSE DetachAll(Detach(d, Head(ns)), Tail(ns))

RECURSIVE AppendKids(_, _, _)
AppendKids(d, p, ns) ==
  IF ns = <<>> THEN d
  ELSE AppendKids(InsertChildAt(d, p, Len(d[p].kids) + 1, Head(ns)), p, Tail(ns))

\* Range.extractContents for the range (sn, so)..(en, eo), offsets 0-based as
\* in the DOM: result [dom, frag], frag the top-level nodes of the fragment.
\* A partially contained text node is cloned and truncated, a partially
\* contained element is cloned (attributes included) and its selected part
\* extracted into the clone, contained children move into the fragment.
RECURSIVE Extract(_, _, _, _, _)
Extract(d, sn, so, en, eo) ==
  IF sn = en /\ so = eo THEN [dom |-> d, frag |-> <<>>]
  ELSE IF sn = en /\ IsText(d, sn)
  THEN [dom |-> [Append(d, TextNode(SubSeq(d[sn].data, so + 1, eo), NoNode))
                   EXCEPT ![sn].data = SubSeq(@, 1, so) \o SubSeq(@, eo + 1, Len(@))],
        frag |-> <<Len(d) + 1>>]
  ELSE
    LET ca == CommonAncestor(d, sn, en)
        fpc == FirstPartial(d, sn, en)
        lpc == LastPartial(d, sn, en)
        lo == IF fpc = NoNode THEN so + 1 ELSE PositionIn(d[ca].kids, fpc) + 1
        hi == IF lpc = NoNode THEN eo ELSE PositionIn(d[ca].kids, lpc) - 1
        contained == SubSeq(d[ca].kids, lo, hi)
        r1 == IF fpc = NoNode THEN [dom |-> d, frag |-> <<>>]
              ELSE IF IsText(d, fpc)
              THEN [dom |-> [Append(d, TextNode(SubSeq(d[fpc].data, so + 1,
                                                       Len(d[fpc].data)), NoNode))
                               EXCEPT ![fpc].data = SubSeq(@, 1, so)],
                    frag |-> <<Len(d) + 1>>]
              ELSE LET clone == Len(d) + 1
                       dA == Append(d, [d[fpc] EXCEPT !.kids = <<>>,
                                                      !.parent = NoNode])
                       sub == Extract(dA, sn, so, fpc, Len(dA[fpc].kids))
                   IN [dom |-> AppendKids(sub.dom, clone, sub.frag),
                       frag |-> <<clone>>]
        d2 == DetachAll(r1.dom, contained)
        r3 == IF lpc = NoNode THEN [dom |-> d2, frag |-> <<>>]
              ELSE IF IsText(d2, lpc)
              THEN [dom |-> [Append(d2, TextNode(SubSeq(d2[lpc].data, 1, eo), NoNode))
                               EXCEPT ![lpc].data = SubSeq(@, eo + 1, Len(@))],
                    frag |-> <<Len(d2) + 1>>]
              ELSE LET clone == Len(d2) + 1
                       dB == Append(d2, [d2[lpc] EXCEPT !.kids = <<>>,
                                                        !.parent = NoNode])
                       sub == Extract(dB, lpc, 0, en, eo)
                   IN [dom |-> AppendKids(sub.dom, clone, sub.frag),
                       frag |-> <<clone>>]
    IN [dom |-> r3.dom, frag |-> r1.frag \o contained \o r3.frag]

\* the collapsed position of the range after extraction: [node, offset]
AfterExtract(d, sn, so, en) ==
  IF IsInclusiveAncestor(d, sn, en) THEN [node |-> sn, offset |-> so]
  ELSE LET ca == CommonAncestor(d, sn, en)
       IN [node |-> ca,
           offset |-> PositionIn(d[ca].kids, ChildToward(d, ca, sn))]

\* Range.insertNode(node) at the collapsed position (rn, ro): a text node is
\* split at the offset and the node goes before the split-off part
InsertNode(d, rn, ro, node) ==
  IF IsText(d, rn)
  THEN LET tail == Len(d) + 1
           p == d[rn].parent
           d1 == Append([d EXCEPT ![rn].data = SubSeq(@, 1, ro)],
                        TextNode(SubSeq(d[rn].data, ro + 1, Len(d[rn].data)), NoNode))
           d2 == InsertChildAt(d1, p, PositionIn(d1[p].kids, rn) + 1, tail)
       IN InsertChildAt(d2, p, PositionIn(d2[p].kids, tail), node)
  ELSE InsertChildAt(d, rn, ro + 1, node)

\* Range.surroundContents refuses a range that partially contains a node
\* that is not a text node (InvalidStateError)
PartiallySelectsNonText(d, sn, en) ==
  \/ FirstPartial(d, sn, en) # NoNode /\ ~IsText(d, FirstPartial(d, sn, en))
  \/ LastPartial(d, sn, en) # NoNode /\ ~IsText(d, LastPartial(d, sn, en))

\* extract the range, insert span where the range collapsed, append the
\* extracted fragment to span
WrapExtracted(d, r, span) ==
  LET Inserted(pos, ex) ==
        AppendKids(InsertNode(ex.dom, pos.node, pos.offset, span), span, ex.frag)
  IN Inserted(AfterExtract(d, r.sn, r.so, r.en),
              Extract(d, r.sn, r.so, r.en, r.eo))

\* position of a text node in document order, for comparing boundary points
DocIndex(d, n) == PositionIn(TextNodesOf(d, Body), n)

BoundaryBefore(d, n1, o1, n2, o2) ==
  IF n1 = n2 THEN o1 < o2 ELSE DocIndex(d, n1) < DocIndex(d, n2)

\* Range.toString for text-node boundary points
RECURSIVE DataOf(_, _)
DataOf(d, ns) == IF ns = <<>> THEN <<>> ELSE d[Head(ns)].data \o DataOf(d, Tail(ns))

RangeText(d, r) ==
  IF r.sn = r.en THEN SubSeq(d[r.sn].data, r.so + 1, r.eo)
  ELSE LET leaves == TextNodesOf(d, Body)
           i == PositionIn(leaves, r.sn)
           j == PositionIn(leaves, r.en)
       IN SubSeq(d[r.sn].data, r.so + 1, Len(d[r.sn].data))
          \o DataOf(d, SubSeq(leaves, i + 1, j - 1))
          \o SubSeq(d[r.en].data, 1, r.eo)

\* ---------------------------------------------------------- Anchor Resolver
LowerChar(c) ==
  CASE c = "A" -> "a" [] c = "B" -> "b" [] c = "C" -> "c" [] c = "D" -> "d"
    [] OTHER -> c

\* String.prototype.toLowerCase
ToLowerCase(s) == [i \in 1..Len(s) |-> LowerChar(s[i])]

\* String.prototype.split(/\s+/): the pieces between maximal whitespace runs;
\* a leading or trailing run leaves an empty piece
RECURSIVE SplitScan(_, _, _, _)
SplitScan(s, words, cur, inGap) ==
  IF s = <<>> THEN Append(words, cur)
  ELSE IF Head(s) \in Whitespace
  THEN IF inGap THEN SplitScan(Tail(s), words, cur, TRUE)
       ELSE SplitScan(Tail(s), Append(words, cur), <<>>, TRUE)
  ELSE SplitScan(Tail(s), words, Append(cur, Head(s)), FALSE)

SplitWhitespace(s) == SplitScan(s, <<>>, <<>>, FALSE)

\* calculateContextSimilarity: the score as a fraction [num, den]
calculateContextSimilarity(originalContext, nodeContext) ==
  LET originalWords == SplitWhitespace(ToLowerCase(originalContext))
      nodeWords == SplitWhitespace(ToLowerCase(nodeContext))
      commonWords == Cardinality({i \in 1..Len(originalWords) :
                                    originalWords[i] \in SeqToSet(nodeWords)})
  IN [num |-> commonWords,
      den |-> IF Len(originalWords) >= Len(nodeWords)
              THEN Len(originalWords) ELSE Len(nodeWords)]

\* a comparison that lets a later candidate with an equal score win
ScoreAtLeast(a, b) == a.num * b.den >= b.num * a.den

ScoreGreater(a, b) == a.num * b.den > b.num * a.den

\* getNodeContext: up to 50 characters on each side of the match
getNodeContext(content, textIndex, textLength) ==
  LET start == IF textIndex - ContextRadius > 0 THEN textIndex - ContextRadius ELSE 0
      end == IF textIndex + textLength + ContextRadius < Len(content)
             THEN textIndex + textLength + ContextRadius ELSE Len(content)
  IN Substring(content, start, end)

\* findNodeByContext: the first node with the strictly highest score
RECURSIVE ContextScan(_, _, _, _, _, _)
ContextScan(d, ns, text, surroundingText, bestNode, bestScore) ==
  IF ns = <<>> THEN bestNode
  ELSE LET node == Head(ns)
           content == d[node].data
           index == IndexOfText(content, text)
           score == calculateContextSimilarity(
                       surroundingText, getNodeContext(content, index, Len(text)))
       IN IF index # -1 /\ ScoreGreater(score, bestScore)
          THEN ContextScan(d, Tail(ns), text, surroundingText, node, score)
          ELSE ContextScan(d, Tail(ns), text, surroundingText, bestNode, bestScore)

findNodeByContext(d, textNodes, text, surroundingText) ==
  LET bestNode == ContextScan(d, textNodes, text, surroundingText, NoNode,
                              [num |-> 0, den |-> 1])
  IN IF bestNode # NoNode THEN bestNode ELSE textNodes[1]

\* layout: leaves are stacked, one line of height 10 per attached leaf; a
\* range in a leaf outside the document measures as the zero rectangle
RectTop(d, n) == IF Contains(d, n) THEN 10 * DocIndex(d, n) ELSE 0

\* findNodeByPosition: the first node at the strictly smallest distance
RECURSIVE PositionScan(_, _, _, _, _, _)
PositionScan(d, ns, text, target, bestNode, bestSquare) ==
  IF ns = <<>> THEN bestNode
  ELSE LET node == Head(ns)
           dist == (RectTop(d, node) - target.top) * (RectTop(d, node) - target.top)
                   + (0 - target.left) * (0 - target.left)
       IN IF Includes(d[node].data, text) /\ (bestSquare < 0 \/ dist < bestSquare)
          THEN PositionScan(d, Tail(ns), text, target, node, dist)
          ELSE PositionScan(d, Tail(ns), text, target, bestNode, bestSquare)

findNodeByPosition(d, textNodes, text, target) ==
  LET bestNode == PositionScan(d, textNodes, text, target, NoNode, -1)
  IN IF bestNode # NoNode THEN bestNode ELSE textNodes[1]

FirstContaining(d, textNodes, text) ==
  IF \E i \in 1..Len(textNodes) : Includes(d[textNodes[i]].data, text)
  THEN textNodes[CHOOSE i \in 1..Len(textNodes) :
                   /\ Includes(d[textNodes[i]].data, text)
                   /\ \A j \in 1..(i - 1) : ~Includes(d[textNodes[j]].data, text)]
  ELSE textNodes[1]

\* a resolver that consults the captured position before the captured context
findBestTextNodePositionFirst(d, textNodes, text, surroundingText, textPosition) ==
  IF Len(textNodes) = 1 THEN textNodes[1]
  ELSE IF textPosition.has
  THEN findNodeByPosition(d, textNodes, text, textPosition)
  ELSE IF surroundingText # <<>>
  THEN findNodeByContext(d, textNodes, text, surroundingText)
  ELSE FirstContaining(d, textNodes, text)

\* findBestTextNode(textNodes, text, surroundingText, textPosition); an absent
\* context is <<>>, an absent position has has = FALSE
findBestTextNode(d, textNodes, text, surroundingText, textPosition) ==
  IF Len(textNodes) = 1 THEN textNodes[1]
  ELSE IF surroundingText # <<>>
  THEN findNodeByContext(d, textNodes, text, surroundingText)
  ELSE IF textPosition.has
  THEN findNodeByPosition(d, textNodes, text, textPosition)
  ELSE FirstContaining(d, textNodes, text)

\* -------------------------------------------------------- Range Materializer
\* The operations below thread a record w through the calls:
\*   dom    the tree                idx    the Node Index entry
\*   saved  the savedHighlights map trace  the fallback states entered
\*   threw  an exception is propagating out of the call
\*   span   the marker created by the call, or NoNode
SetSaved(saved, id, span) ==
  [k \in DOMAIN saved \cup {id} |-> IF k = id THEN span ELSE saved[k]]

\* isValidNode
isValidNode(d, n) == n # NoNode /\ d[n].parent # NoNode /\ Contains(d, n)

\* isValidRangeData
isValidRangeData(rd) ==
  rd.sn # NoNode /\ rd.en # NoNode /\ rd.so >= 0 /\ rd.eo >= 0

\* createValidRangeFromData: [ok, r]; setStart / setEnd raise IndexSizeError
\* for an offset beyond the node, setEnd before the start collapses the range
createValidRangeFromData(d, rd) ==
  LET null == [ok |-> FALSE, r |-> rd]
  IN IF ~isValidRangeData(rd) THEN null
     ELSE IF rd.sn = rd.en /\ rd.so > rd.eo THEN null
     ELSE IF ~isValidNode(d, rd.sn) THEN null
     ELSE IF rd.so > NodeLength(d, rd.sn) THEN null
     ELSE IF ~isValidNode(d, rd.en) THEN null
     ELSE IF rd.eo > NodeLength(d, rd.en) THEN null
     ELSE IF ~BoundaryBefore(d, rd.sn, rd.so, rd.en, rd.eo) THEN null
     ELSE [ok |-> TRUE, r |-> rd]

\* isValidRangeForMarking
isValidRangeForMarking(d, r) ==
  /\ ~(r.sn = r.en /\ r.so = r.eo)
  /\ d[r.sn].parent # NoNode /\ d[r.en].parent # NoNode
  /\ Contains(d, r.sn) /\ Contains(d, r.en)

\* markTextByContent(text, highlightId): state C
markTextByContent(w, now, text, id, pending) ==
  LET d == w.dom
      Marked(w1, m) ==
        IF m.threw THEN [w1 EXCEPT !.threw = TRUE]
        ELSE [w1 EXCEPT !.dom = m.dom, !.span = m.span,
                        !.saved = SetSaved(@, id, m.span)]
      InNode(w1, bestNode) ==
        CHOOSE result \in
          { IF index = -1 THEN w1
            ELSE CHOOSE marked \in
                   { Marked(w1, m) :
                     m \in {markTextInNode(d, bestNode, text, index, id)} } :
                   TRUE :
            index \in {IndexOfText(d[bestNode].data, text)} } : TRUE
      Found(f, w1) ==
        IF f.nodes = <<>> THEN w1
        ELSE CHOOSE result \in
               { InNode(w1, bestNode) :
                 bestNode \in {findBestTextNode(d, f.nodes, text,
                                                pending.surroundingText,
                                                pending.textPosition)} } : TRUE
  IN CHOOSE result \in
       { Found(f, [w EXCEPT !.idx = f.idx, !.trace = Append(@, "C"),
                            !.walks = @ + (IF f.walked THEN 1 ELSE 0),
                            !.stale = @ \cup Stale(d, f.nodes)]) :
         f \in {findTextNodesOptimized(d, w.idx, now, text)} } : TRUE

\* a state B whose insertion fails after the extraction: the catch block reads
\* the text of the emptied range and gives up
markRangeWithFallbackLosingContents(w, now, r, id, pending) ==
  LET d == w.dom
      w1 == [w EXCEPT !.trace = Append(@, "B")]
  IN IF isValidRangeForMarking(d, r)
     THEN [w1 EXCEPT !.dom = Extract(d, r.sn, r.so, r.en, r.eo).dom]
     ELSE w1

\* markRangeWithFallback(range, highlightId): state B, and in its catch block
\* state C with the text of the range
markRangeWithFallback(w, now, r, id, pending) ==
  LET d == w.dom
      w1 == [w EXCEPT !.trace = Append(@, "B")]
      Wrapped(pos, ex, span) ==
        [w1 EXCEPT !.dom = InsertNode(
                              AppendKids(createHighlightSpan(ex.dom, id, <<>>),
                                         span, ex.frag),
                              pos.node, pos.offset, span),
                   !.span = span, !.saved = SetSaved(@, id, span)]
      Extracted(extraction) ==
        CHOOSE result \in
          { Wrapped(pos, ex, Len(ex.dom) + 1) :
            pos \in {AfterExtract(d, r.sn, r.so, r.en)},
            ex \in {extraction} } : TRUE
      LastResort(textContent) ==
        IF textContent # <<>>
        THEN markTextByContent(w1, now, textContent, id, pending)
        ELSE w1
  IN IF isValidRangeForMarking(d, r)
     THEN Extracted(Extract(d, r.sn, r.so, r.en, r.eo))
     ELSE LastResort(RangeText(d, r))

\* a state A whose catch block goes to the content-based marking at once
markRangeWithSpanSkippingFallback(w, now, r, id, pending) ==
  LET d == w.dom
      w1 == [w EXCEPT !.trace = Append(@, "A")]
  IN IF ~isValidRangeForMarking(d, r) \/ PartiallySelectsNonText(d, r.sn, r.en)
     THEN markTextByContent(w1, now, RangeText(d, r), id, pending)
     ELSE LET span == Len(d) + 1
          IN [w1 EXCEPT !.dom = WrapExtracted(createHighlightSpan(d, id, <<>>),
                                              r, span),
                        !.span = span, !.saved = SetSaved(@, id, span)]

\* markRangeWithSpan(range, highlightId): state A, and in its catch block B
markRangeWithSpan(w, now, r, id, pending) ==
  LET d == w.dom
      w1 == [w EXCEPT !.trace = Append(@, "A")]
      span == Len(d) + 1
      valid == isValidRangeForMarking(d, r)
      withSpan == [w1 EXCEPT !.dom = createHighlightSpan(d, id, <<>>)]
  IN IF valid /\ ~PartiallySelectsNonText(d, r.sn, r.en)
     THEN [withSpan EXCEPT !.dom = WrapExtracted(@, r, span), !.span = span,
                           !.saved = SetSaved(@, id, span)]
     ELSE markRangeWithFallback(IF valid THEN withSpan ELSE w1, now, r, id,
                                pending)

\* markTextAsSavedFromPending(highlightId)
markTextAsSavedFromPending(w, now, pending, id) ==
  IF ~pending.has THEN w
  ELSE CHOOSE result \in
         { IF try.threw
           THEN markTextByContent([try EXCEPT !.threw = FALSE], now,
                                  pending.text, id, pending)
           ELSE try :
           try \in
             { IF ~rr.ok
               THEN markTextByContent(w, now, pending.text, id, pending)
               ELSE markRangeWithSpan(w, now, rr.r, id, pending) :
               rr \in {createValidRangeFromData(w.dom, pending.range)} } } : TRUE

\* ------------------------------------------------------------ re-anchoring
\* markTextInNodes(textNodes, highlight): every listed node that contains the
\* text is marked; an exception ends the loop
RECURSIVE markTextInNodes(_, _, _)
markTextInNodes(w, textNodes, highlight) ==
  IF textNodes = <<>> \/ w.threw THEN w
  ELSE LET textNode == Head(textNodes)
           index == IndexOfText(w.dom[textNode].data, highlight.text)
       IN IF index = -1 THEN markTextInNodes(w, Tail(textNodes), highlight)
          ELSE CHOOSE result \in
                 { IF m.threw
                   THEN [w EXCEPT !.threw = TRUE,
                                  !.stale = @ \cup Stale(w.dom, <<textNode>>)]
                   ELSE markTextInNodes(
                          [w EXCEPT !.dom = m.dom, !.span = m.span,
                                    !.saved = SetSaved(@, highlight.id, m.span),
                                    !.stale = @ \cup Stale(w.dom, <<textNode>>)],
                          Tail(textNodes), highlight) :
                   m \in {markTextInNode(w.dom, textNode, highlight.text,
                                         index, highlight.id)} } : TRUE

\* getCachedTextNodes / cacheTextNodes: the candidate cache, keyed by the
\* fragment text on the one page of the model
getCachedTextNodes(cache, key) ==
  IF key \in DOMAIN cache THEN [hit |-> TRUE, nodes |-> cache[key]]
  ELSE [hit |-> FALSE, nodes |-> <<>>]

cacheTextNodes(cache, key, nodes) ==
  [k \in DOMAIN cache \cup {key} |-> IF k = key THEN nodes ELSE cache[k]]

\* findAndMarkTextOptimized(highlight); w carries the candidate cache as cand
findAndMarkTextOptimized(w, now, highlight) ==
  LET cached == getCachedTextNodes(w.cand, highlight.text)
  IN IF cached.hit
     THEN markTextInNodes([w EXCEPT !.hits = Append(@, highlight.text)],
                          cached.nodes, highlight)
     ELSE CHOOSE result \in
            { markTextInNodes(
                [w EXCEPT !.idx = f.idx,
                          !.cand = cacheTextNodes(@, highlight.text, f.nodes),
                          !.walks = @ + (IF f.walked THEN 1 ELSE 0),
                          !.stale = @ \cup Stale(w.dom, f.nodes)],
                f.nodes, highlight) :
              f \in {findTextNodesOptimized(w.dom, w.idx, now,
                                            highlight.text)} } : TRUE

\* chunk.forEach(processor)
RECURSIVE ProcessItems(_, _, _)
ProcessItems(w, now, items) ==
  IF items = <<>> \/ w.threw THEN w
  ELSE ProcessItems(findAndMarkTextOptimized(w, now, Head(items)), now, Tail(items))

\* if (currentIndex < items.length), after currentIndex += chunkSize
ScheduleNextInclusive(currentIndex, length) == currentIndex <= length

ScheduleNext(currentIndex, length) == currentIndex < length

\* processChunk of processInChunks: [w, currentIndex, again]
processChunk(w, now, items, currentIndex) ==
  LET chunk == SubSeq(items, currentIndex + 1,
                      IF currentIndex + ChunkSize < Len(items)
                      THEN currentIndex + ChunkSize ELSE Len(items))
  IN CHOOSE result \in
       { [w |-> w1,
          currentIndex |-> IF w1.threw THEN currentIndex
                           ELSE currentIndex + ChunkSize,
          again |-> ~w1.threw
                    /\ ScheduleNext(currentIndex + ChunkSize, Len(items))] :
         w1 \in {ProcessItems(w, now, chunk)} } : TRUE

\* updateDomCache
updateDomCache(d, dc, now) ==
  IF now - dc.lastCacheTime > CacheValidityDuration
  THEN [has |-> TRUE, existingHighlights |-> QuerySavedHighlights(d),
        lastCacheTime |-> now]
  ELSE dc

\* -------------------------------------------------------- memory management
\* The Maps textNodeCache and summaryCache of the single-file HighlightSaver,
\* as sequences of entries in insertion order.  An entry is
\* [key, stamped, timestamp, written]: stamped tells whether the value has a
\* timestamp property (a cached candidate list is a bare array and has none);
\* written is history, the time of the write.
Entry(key, stamped, timestamp, written) ==
  [key |-> key, stamped |-> stamped, timestamp |-> timestamp, written |-> written]

\* Map.prototype.set: a present key keeps its place
MapSet(cache, e) ==
  IF \E i \in 1..Len(cache) : cache[i].key = e.key
  THEN [i \in 1..Len(cache) |-> IF cache[i].key = e.key THEN e ELSE cache[i]]
  ELSE Append(cache, e)

MapHas(cache, key) == \E i \in 1..Len(cache) : cache[i].key = key

MapGet(cache, key) == cache[CHOOSE i \in 1..Len(cache) : cache[i].key = key]

Least(S) == CHOOSE x \in S : \A y \in S : x <= y

\* the entries at the positions K, in order
Pick(cache, K) ==
  [k \in 1..Cardinality(K) |->
     cache[CHOOSE i \in K : Cardinality({j \in K : j < i}) = k - 1]]

\* the first n positions of K
FirstOf(K, n) == {i \in K : Cardinality({j \in K : j < i}) < n}

\* value.timestamp || 0
TimestampOrZero(e) == IF e.stamped THEN e.timestamp ELSE 0

\* cleanupExpiredCaches, for one Map
cleanupExpired(cache, now, validity) ==
  LET Kept(e) == ~(e.stamped /\ now - e.timestamp > validity)
  IN SelectSeq(cache, Kept)

\* findOldestEntries(cache, count): positions of the entries to delete
findOldestEntries(cache, count) ==
  LET stamps == {TimestampOrZero(cache[i]) : i \in 1..Len(cache)}
      oldestTimestamp == Least(stamps)
      oldestKeys == FirstOf({i \in 1..Len(cache) :
                               TimestampOrZero(cache[i]) = oldestTimestamp}, count)
      later == {t \in stamps : t > oldestTimestamp}
      nextKeys == IF Cardinality(oldestKeys) < count /\ later # {}
                  THEN FirstOf({i \in 1..Len(cache) :
                                  TimestampOrZero(cache[i]) = Least(later)},
                               count - Cardinality(oldestKeys))
                  ELSE {}
  IN oldestKeys \cup nextKeys

\* limitCacheSize(cache, maxSize): [cache, evicted]
limitCacheSize(cache, maxSize) ==
  IF Len(cache) <= maxSize THEN [cache |-> cache, evicted |-> <<>>]
  ELSE CHOOSE result \in
         { [cache |-> Pick(cache, (1..Len(cache)) \ oldestEntries),
            evicted |-> Pick(cache, oldestEntries)] :
           oldestEntries \in {findOldestEntries(cache, Len(cache) - maxSize)} } :
         TRUE

\* ------------------------------------------------------- background service
\* a stored highlight; the timestamp is in days, 0 when the message has none
StoredHighlight(id, timestamp) == [id |-> id, timestamp |-> timestamp]

\* n highlights stored at time t, with identifiers above those of the
\* requests
StoredAt(n, t) == [i \in 1..n |-> StoredHighlight(MaxMessages + i, t)]

\* highlights.splice(1000)
Splice(highlights, limit) ==
  IF Len(highlights) > limit THEN SubSeq(highlights, 1, limit) ELSE highlights

\* saveHighlight between the read and the write: the timestamp is added if
\* missing, the highlight goes to the front and the list is cut at 1000
saveHighlightList(highlights, highlight, t) ==
  Splice(<<IF highlight.timestamp = 0
           THEN StoredHighlight(highlight.id, t) ELSE highlight>>
         \o highlights,
         MaxStoredHighlights)

\* highlights.filter((h) => h.id !== id)
deleteHighlightList(highlights, id) ==
  LET Other(h) == h.id # id IN SelectSeq(highlights, Other)

\* cleanupOldHighlights: highlights.filter((h) => h.timestamp > cutoffDate)
cleanupOldHighlightsList(highlights, t, daysToKeep) ==
  LET Recent(h) == h.timestamp > t - daysToKeep IN SelectSeq(highlights, Recent)

\* the actions handleMessage has a case for
KnownActions ==
  {"saveHighlight", "getHighlights", "deleteHighlight", "clearAllHighlights",
   "exportHighlights", "importHighlights", "summarizeHighlight"}

\* the validation an operation does before its first await
ValidRequest(request) ==
  CASE request.action = "saveHighlight" -> request.valid
    [] request.action = "deleteHighlight" -> request.id # 0
    [] request.action = "importHighlights" -> request.valid
    [] request.action = "summarizeHighlight" -> request.valid
    [] OTHER -> TRUE

\* the error message of the response to a request that fails validation
ValidationError(request) ==
  CASE request.action = "saveHighlight" ->
         "Invalid highlight data: missing required fields"
    [] request.action = "deleteHighlight" -> "Highlight ID is required"
    [] request.action = "importHighlights" ->
         "Failed to import highlights: Invalid import format - expected array or object with highlights property"
    [] request.action = "summarizeHighlight" ->
         "Failed to summarize: Invalid request: missing required fields"
    [] OTHER -> "Unknown error occurred"

\* the error message of the response when an awaited call rejects
OperationError(action) ==
  CASE action = "saveHighlight" -> "Failed to save highlight: "
    [] action = "getHighlights" -> "Failed to retrieve highlights: "
    [] action = "deleteHighlight" -> "Failed to delete highlight: "
    [] action = "clearAllHighlights" -> "Failed to clear highlights: "
    [] action = "exportHighlights" -> "Failed to export highlights: "
    [] action = "importHighlights" -> "Failed to import highlights: "
    [] OTHER -> "Failed to summarize: "

\* where an operation waits first: on storage.get, on storage.set or on the
\* summarizer
FirstAwait(action) ==
  CASE action \in {"saveHighlight", "getHighlights", "deleteHighlight",
                   "exportHighlights"} -> "get"
    [] action \in {"clearAllHighlights", "importHighlights"} -> "set"
    [] OTHER -> "call"

Success == [success |-> TRUE, error |-> ""]

Failure(message) == [success |-> FALSE, error |-> message]

\* sendResponse(response) for the request numbered req
sendResponseNever(all, req, response) == all

sendResponse(all, req, response) == [all EXCEPT ![req] = Append(@, response)]

\* requests: the requests received, with threw set when an awaited call of
\* the request rejected; acknowledged, deleted: identifiers of the saves
\* answered with success and of the deletions requested; cut: identifiers a
\* save removed at the 1000-entry cap
NoBackgroundLog ==
  [requests |-> <<>>, acknowledged |-> {}, deleted |-> {}, cut |-> {}]

\* ------------------------------------------------------------ summarization
\* the characters that /[^a-zA-Z0-9]/ does not match
AlphaNumerics ==
  {"a", "b", "c", "d", "e", "f", "g", "h", "i", "j", "k", "l", "m", "n", "o",
   "p", "q", "r", "s", "t", "u", "v", "w", "x", "y", "z",
   "A", "B", "C", "D", "E", "F", "G", "H", "I", "J", "K", "L", "M", "N", "O",
   "P", "Q", "R", "S", "T", "U", "V", "W", "X", "Y", "Z",
   "0", "1", "2", "3", "4", "5", "6", "7", "8", "9"}

\* .replace(/[^a-zA-Z0-9]/g, "_")
ReplaceNonAlphaNumerics(s) ==
  [i \in 1..Len(s) |-> IF s[i] \in AlphaNumerics THEN s[i] ELSE "_"]

\* generateSummaryCacheKey(highlight)
generateSummaryCacheKey(highlight) ==
  ReplaceNonAlphaNumerics(Substring(highlight.text, 0, KeyTextLength)
                          \o <<"_">> \o highlight.url
                          \o <<"_">> \o highlight.title)

\* the cache test of simpleSummarize:
\* summaryCache.has(cacheKey) && Date.now() - cached.timestamp < 300000
CachedSummaryValidUntilSwept(cache, key, t) == MapHas(cache, key)

CachedSummaryValid(cache, key, t) ==
  /\ MapHas(cache, key)
  /\ t - MapGet(cache, key).timestamp < SummaryValidity

\* apiRequestQueue.delete(cacheKey)
QueueDeleteNothing(queue, key) == queue

QueueDelete(queue, key) == [k \in (DOMAIN queue) \ {key} |-> queue[k]]

\* apiRequestQueue.set(cacheKey, requestPromise)
QueueSet(queue, key, call) ==
  [k \in (DOMAIN queue) \cup {key} |-> IF k = key THEN call ELSE queue[k]]

\* requests: one record per request, in arrival order; outcome: what each
\* settled call gave; cachedAt: when the summary of a key was last cached
NoSummaryLog ==
  [requests |-> <<>>, outcome |-> <<>>, cachedAt |-> <<>>]

\* n summaries cached at time t, for the keys 1..n in this order
RECURSIVE Summarized(_, _)
Summarized(n, t) ==
  IF n = 0 THEN <<>> ELSE Append(Summarized(n - 1, t), Entry(n, TRUE, t, t))

\* else if (attempts < maxAttempts)
RetryAgainInclusive(attempts, maxAttempts) == attempts <= maxAttempts

RetryAgain(attempts, maxAttempts) == attempts < maxAttempts

\* attempts and the pending timer of one call; calledAt, checks and callbacks
\* record when the call was made, each check made and the callbacks made
NoRetry ==
  [armed |-> FALSE, due |-> 0, attempts |-> 0, callbacks |-> 0,
   calledAt |-> 0, checks |-> <<>>]

\* now - this.lastSelectionTime < this.minSelectionInterval
ThrottledNever(t, lastTime) == FALSE

Throttled(t, lastTime) == t - lastTime < MinSelectionInterval

\* clearTimeout(handle): a spent or unknown handle changes nothing
clearTimeoutForgetting(armed, handle) == armed

clearTimeout(armed, handle) == {t \in armed : t.id # handle}

NoSelectionLog == [accepted |-> <<>>, invoked |-> <<>>, retired |-> {}]

\* ----------------------------------------------------------------- the page
TxtAbC == <<"a", "b", " ", "c">>
TxtC == <<"c">>
TxtBC == <<"b", " ", "c">>
TxtZz == <<"z", "z">>
Ellipsis == <<".", ".", ".">>

\* <body>ab c<b>c</b></body>
InitialDom ==
  << ElemNode("elem", <<2, 3>>, NoNode, 0),
     TextNode(TxtAbC, 1),
     ElemNode("elem", <<4>>, 1, 0),
     TextNode(TxtC, 3) >>

Highlight(id, text, url) == [id |-> id, text |-> text, url |-> url]

\* what the persistence collaborator may return for loadHighlights
StoredLists ==
  { <<>>,
    << Highlight(1, TxtAbC, "here"), Highlight(2, TxtC, "here"),
       Highlight(3, TxtC, "other") >>,
    << Highlight(1, TxtAbC, "here"), Highlight(2, TxtZz, "here"),
       Highlight(3, TxtZz, "here"), Highlight(4, TxtZz, "other"),
       Highlight(5, TxtZz, "here"), Highlight(6, TxtZz, "here"),
       Highlight(7, TxtBC, "here") >> }

FirstNewId == 10

NoRange == [sn |-> NoNode, so |-> 0, en |-> NoNode, eo |-> 0]
NoPosition == [has |-> FALSE, top |-> 0, left |-> 0]
NoPending ==
  [has |-> FALSE, text |-> <<>>, range |-> NoRange, surroundingText |-> <<>>,
   textPosition |-> NoPosition]

NoIndex == [has |-> FALSE, nodes |-> <<>>, timestamp |-> 0]
NoDomCache == [has |-> FALSE, existingHighlights |-> <<>>, lastCacheTime |-> 0]
EmptyMap == [k \in {} |-> 0]

VARIABLES
  dom,                 \* the document tree and the nodes that left it
  now,                 \* Date.now()
  nodeIndex,           \* DOMUtils.textNodeCache["all_text_nodes"]
  textNodeCache,       \* candidate cache of the cache manager
  cachedAt,            \* history: when each candidate entry was written
  domCache,            \* domCache of the cache manager
  savedHighlights,     \* Map highlight id -> span
  savedHighlightsData, \* the loaded records
  loaded,              \* init() got past loadSavedHighlights
  pendingHighlight,    \* selection data kept while the popup is shown
  inFlight,            \* save requests awaiting the collaborator's response
  batches,             \* scheduled processChunk callbacks: [items, currentIndex]
  nextId,              \* generateId
  fresh,               \* history: the tree is as it was when pending was captured
  replaced,            \* history: leaves the page replaced
  counts,              \* history: operations performed, for the bounds; saved: identifiers saved and marked in this session
  last,                \* history: the outcome of the last operation
  summaryCache,        \* Map summaryCache of the single-file class
  textNodeMap,         \* Map textNodeCache of the single-file class
  lastCleanup,          \* memoryUsage.lastCleanup
  clock,   \* Date.now() of the selection handler, in units of 50 ms
  selectionTimeout,   \* EventUtils.selectionTimeout: a timer handle
  lastSelectionTime,   \* EventUtils.lastSelectionTime
  timers,   \* the host's armed setTimeout timers: [id, due, event]
  selectionLog,   \* history: events accepted, handler invocations, events retired by cleanup
  apiRequestQueue,   \* Map apiRequestQueue: fingerprint key -> the call whose promise it holds
  calls,   \* collaborator calls in flight: [id, key]
  waiting,   \* summarize requests awaiting a call: [req, call]
  summaryLog,   \* history: the requests, the outcome of each call, when each key was cached
  retry,   \* the closure of handleUrlFragmentWithRetry: attempts, its armed timer; history: callbacks, time of the last check
  stored,   \* background: the highlights list in chrome.storage.local
  handlers,   \* background: the runs of handleMessage waiting on a call
  responses,   \* background: the responses sent, per request
  day,   \* background: Date.now() in days
  bgLog   \* history: requests received, saves acknowledged, deletions requested

vars ==
  << dom, now, nodeIndex, textNodeCache, cachedAt, domCache, savedHighlights,
     savedHighlightsData, loaded, pendingHighlight, inFlight, batches, nextId,
     fresh, replaced, counts, last, summaryCache, textNodeMap, lastCleanup,
     clock, selectionTimeout, lastSelectionTime, timers, selectionLog,
     apiRequestQueue, calls, waiting, summaryLog,
     retry,
     stored, handlers, responses, day, bgLog >>

backgroundVars == << stored, handlers, responses, day, bgLog >>

retryVars == << retry >>

summaryVars == << apiRequestQueue, calls, waiting, summaryLog >>

eventVars == << clock, selectionTimeout, lastSelectionTime, timers, selectionLog >>

cacheVars == << summaryCache, textNodeMap, lastCleanup >>

NoLast ==
  [op |-> "none", id |-> 0, text |-> <<>>, trace |-> <<>>, escaped |-> "none",
   feedback |-> "none", span |-> NoNode, textKept |-> TRUE, stale |-> {}, wasFresh |-> FALSE,
   wasReplaced |-> FALSE, found |-> FALSE, afterRemoval |-> 0, rangeOk |-> FALSE,
   beforeRemoval |-> 0, recent |-> FALSE, onceBefore |-> {}, quiet |-> FALSE,
   candidates |-> <<>>, hitAges |-> <<>>, walks |-> 0, sinceWalk |-> -1,
   best |-> NoNode, scores |-> <<>>,
   evicted |-> [summaries |-> <<>>, nodes |-> <<>>],
   n |-> 0, chunks |-> 0, yields |-> 0, processed |-> 0,
   applied |-> <<>>, sync |-> 0,
   event |-> 0, started |-> FALSE, sinceInvoke |-> -1, waited |-> -1,
   key |-> 0, sinceCached |-> -1, inStore |-> FALSE, served |-> FALSE,
   newCall |-> FALSE, message |-> "", outcome |-> "none",
   present |-> FALSE, called |-> FALSE]

Init ==
  /\ dom = InitialDom
  /\ now = StartTime
  /\ nodeIndex = NoIndex
  /\ textNodeCache = EmptyMap
  /\ cachedAt = EmptyMap
  /\ summaryCache = <<>>
  /\ textNodeMap = <<>>
  /\ lastCleanup = StartTime
  /\ stored = <<>>
  /\ handlers = {}
  /\ responses = <<>>
  /\ day = StartDay
  /\ bgLog = NoBackgroundLog
  /\ retry = NoRetry
  /\ apiRequestQueue = <<>>
  /\ calls = {}
  /\ waiting = {}
  /\ summaryLog = NoSummaryLog
  /\ clock = StartClock
  /\ selectionTimeout = NoTimeout
  /\ lastSelectionTime = 0
  /\ timers = {}
  /\ selectionLog = NoSelectionLog
  /\ domCache = NoDomCache
  /\ savedHighlights = EmptyMap
  /\ savedHighlightsData = <<>>
  /\ loaded = FALSE
  /\ pendingHighlight = NoPending
  /\ inFlight = <<>>
  /\ batches = <<>>
  /\ nextId = FirstNewId
  /\ fresh = FALSE
  /\ replaced = {}
  /\ counts = [selections |-> 0, saves |-> 0, renders |-> 0, mutations |-> 0,
             resolves |-> 0, summaries |-> 0, chunks |-> 0, runs |-> 0,
             events |-> 0, requests |-> 0, calls |-> 0, settled |-> 0, fragments |-> 0,
             messages |-> 0, mousedowns |-> 0, clicks |-> 0, saved |-> {}]
  /\ last = NoLast

\* the part of the state that the marking methods read and write, with the
\* history of one call: the states attempted (trace), the candidate-cache
\* keys served (hits), the traversals of getAllTextNodes (walks), and the
\* leaves that findTextNodesOptimized returned or markTextInNode was given
\* while they were outside the document (stale)
World(d, idx, cand, saved) ==
  [dom |-> d, idx |-> idx, cand |-> cand, saved |-> saved, trace |-> <<>>,
   threw |-> FALSE, span |-> NoNode, hits |-> <<>>, walks |-> 0, stale |-> {}]

\* history of the candidate cache: the write time of every entry, and the
\* age of the entry behind every key that a call served from the cache
Stamped(cand, at, t) ==
  [k \in DOMAIN cand |-> IF k \in DOMAIN at THEN at[k] ELSE t]

HitAges(hits, at, t) ==
  [i \in 1..Len(hits) |->
     IF hits[i] \in DOMAIN at THEN t - at[hits[i]] ELSE 0]

SinceWalk(idx, t) == IF idx.has THEN t - idx.timestamp ELSE -1

AttachedLeaves(d) == SeqToSet(TextNodesOf(d, Body))

DocumentText(d) == TextContent(d, Body)

AttachedMarkers(d) == SeqToSet(QuerySavedHighlights(d))

MarkersOfId(d, id) == {m \in AttachedMarkers(d) : d[m].hid = id}

\* getSurroundingTextFromRange
getSurroundingTextFromRange(d, r) ==
  LET container == CommonAncestor(d, r.sn, r.en)
  IN IF IsText(d, container)
     THEN Substring(TextContent(d, d[container].parent), 0, SurroundingLimit)
          \o Ellipsis
     ELSE Substring(TextContent(d, container), 0, SurroundingLimit) \o Ellipsis

\* the passages a user selects, wherever they occur: both ends of the range
\* lie in attached text leaves
TxtAb == <<"a", "b">>
TxtSpaceC == <<" ", "c">>
TxtCc == <<"c", "c">>
TxtSpace == <<" ">>
SelectableTexts == {TxtAb, TxtSpaceC, TxtC, TxtAbC, TxtCc, TxtSpace}

Selections(d) ==
  {r \in [sn : AttachedLeaves(d), so : 0..Len(DocumentText(d)),
          en : AttachedLeaves(d), eo : 0..Len(DocumentText(d))] :
     /\ r.so <= Len(d[r.sn].data) /\ r.eo <= Len(d[r.en].data)
     /\ BoundaryBefore(d, r.sn, r.so, r.en, r.eo)
     /\ RangeText(d, r) \in SelectableTexts}

\* handleTextSelection (after the debouncer): EventUtils.handleTextSelection,
\* the callback of HighlightSaver.handleTextSelection and storeSelectionData
TextSelection(r) ==
  /\ counts.selections < MaxSelections
  /\ r \in Selections(dom)
  /\ LET selectedText == Trim(RangeText(dom, r))
     IN /\ Len(selectedText) < MaxSelectionLength
        /\ IF Len(selectedText) > 0
           THEN /\ pendingHighlight' =
                     [has |-> TRUE, text |-> selectedText, range |-> r,
                      surroundingText |-> getSurroundingTextFromRange(dom, r),
                      textPosition |-> [has |-> TRUE, top |-> RectTop(dom, r.sn),
                                        left |-> 0]]
                /\ fresh' = TRUE
           ELSE /\ pendingHighlight' = NoPending
                /\ fresh' = FALSE
        /\ last' = [NoLast EXCEPT !.op = "select", !.text = selectedText]
  /\ counts' = [counts EXCEPT !.selections = @ + 1]
  /\ UNCHANGED cacheVars
  /\ UNCHANGED backgroundVars
  /\ UNCHANGED retryVars
  /\ UNCHANGED summaryVars
  /\ UNCHANGED eventVars
  /\ UNCHANGED << dom, now, nodeIndex, textNodeCache, cachedAt, domCache, savedHighlights,
                  savedHighlightsData, loaded, inFlight, batches, nextId,
                  replaced >>

\* handleSaveClick and saveHighlightFromPending up to the await; pressed
\* tells the event that called it: "down" (mousedown), "click", or "none"
\* when the press itself is not modelled
handleSaveClick(pressed) ==
  /\ counts' = [counts EXCEPT
                  !.saves = @ + 1,
                  !.mousedowns = IF pressed = "down" THEN @ + 1 ELSE @,
                  !.clicks = IF pressed = "click" THEN @ + 1 ELSE @]
  /\ IF pendingHighlight.has
     THEN /\ inFlight' = Append(inFlight,
                                [id |-> nextId, text |-> pendingHighlight.text])
          /\ nextId' = nextId + 1
          /\ last' = [NoLast EXCEPT !.op = "saveclick", !.id = nextId,
                                    !.text = pendingHighlight.text]
     ELSE /\ last' = [NoLast EXCEPT !.op = "saveclick", !.feedback = "error"]
          /\ UNCHANGED << inFlight, nextId >>
  /\ UNCHANGED cacheVars
  /\ UNCHANGED backgroundVars
  /\ UNCHANGED retryVars
  /\ UNCHANGED summaryVars
  /\ UNCHANGED eventVars
  /\ UNCHANGED << dom, now, nodeIndex, textNodeCache, cachedAt, domCache, savedHighlights,
                  savedHighlightsData, loaded, pendingHighlight, batches, fresh,
                  replaced >>

\* one activation of the Save button
SaveClick ==
  /\ counts.saves < MaxSaves
  /\ handleSaveClick("none")

\* result && result.success
ResultOkUnlessEmpty(outcome) == outcome \in {"success", "noResult"}

ResultOk(outcome) == outcome = "success"

\* how the promise of StorageUtils.saveHighlight can settle: a response with
\* success, the 5 s timeout, chrome.runtime.lastError, a response that
\* reports an error, a response without success and without error
SaveOutcomes == {"success", "timeout", "lastError", "refused", "noResult"}

\* error.message in the catch block of saveHighlightFromPending
FailureMessage(outcome) ==
  CASE outcome = "timeout" -> "Response timeout"
    [] outcome = "lastError" -> "chrome.runtime.lastError.message"
    [] outcome = "refused" -> "result.error"
    [] outcome = "noResult" -> "Unknown storage error"
    [] OTHER -> ""

\* the requests awaiting a response after the catch block of
\* saveHighlightFromPending handled the failure of request: it logs and shows
\* the error feedback, and sends nothing
CatchSaveErrorRetrying(queue, request) == Append(queue, request)

CatchSaveError(queue, request) == queue

\* saveHighlightFromPending after the await: request i settles
SaveResponse(i, outcome) ==
  /\ i \in 1..Len(inFlight)
  /\ inFlight' = IF ResultOk(outcome) THEN RemoveAt(inFlight, i)
                 ELSE CatchSaveError(RemoveAt(inFlight, i), inFlight[i])
  /\ \E w \in {markTextAsSavedFromPending(
                  World(dom, nodeIndex, textNodeCache, savedHighlights),
                  now, pendingHighlight, inFlight[i].id)} :
     LET base == [NoLast EXCEPT !.op = "save", !.id = inFlight[i].id,
                                !.text = pendingHighlight.text,
                                !.outcome = outcome]
     IN IF ~ResultOk(outcome)
        THEN /\ last' = [base EXCEPT !.op = "savefailed", !.feedback = "error",
                                     !.message = FailureMessage(outcome)]
             /\ counts' = [counts EXCEPT !.settled = @ + 1]
             /\ UNCHANGED << dom, nodeIndex, savedHighlights, pendingHighlight,
                             fresh >>
        ELSE /\ counts' = [counts EXCEPT
                             !.settled = @ + 1,
                             !.saved = IF w.threw THEN @
                                       ELSE @ \cup {inFlight[i].id}]
             /\ dom' = w.dom
             /\ nodeIndex' = w.idx
             /\ savedHighlights' = w.saved
             /\ pendingHighlight' = IF w.threw THEN pendingHighlight ELSE NoPending
             /\ fresh' = FALSE
             /\ last' =
                  [base EXCEPT
                     !.trace = w.trace,
                     !.escaped = IF w.threw THEN "caller" ELSE "none",
                     !.feedback = IF w.threw THEN "error" ELSE "success",
                     !.span = w.span,
                     !.walks = w.walks,
                     !.sinceWalk = SinceWalk(nodeIndex, now),
                     !.textKept = (DocumentText(w.dom) = DocumentText(dom)),
                     !.stale = w.stale,
                     !.wasFresh = pendingHighlight.has /\ fresh,
                     !.wasReplaced =
                        /\ pendingHighlight.has
                        /\ pendingHighlight.range.sn \in replaced
                        /\ pendingHighlight.range.en = pendingHighlight.range.sn
                        /\ \E n \in AttachedLeaves(dom) :
                             dom[n].data = dom[pendingHighlight.range.sn].data,
                     !.found =
                        /\ pendingHighlight.has
                        /\ \E n \in AttachedLeaves(dom) :
                             Includes(dom[n].data, pendingHighlight.text),
                     !.rangeOk =
                        /\ pendingHighlight.has
                        /\ createValidRangeFromData(dom, pendingHighlight.range).ok]
  /\ UNCHANGED cacheVars
  /\ UNCHANGED backgroundVars
  /\ UNCHANGED retryVars
  /\ UNCHANGED summaryVars
  /\ UNCHANGED eventVars
  /\ UNCHANGED << now, textNodeCache, cachedAt, domCache, savedHighlightsData, loaded,
                  batches, nextId, replaced >>

\* the records of the current page
RECURSIVE PageHighlights(_)
PageHighlights(hs) ==
  IF hs = <<>> THEN <<>>
  ELSE (IF Head(hs).url = "here" THEN <<Head(hs)>> ELSE <<>>)
       \o PageHighlights(Tail(hs))

\* markExistingHighlights with the records data: updateDomCache, removal of
\* the existing markers, savedHighlights.clear(), and processInChunks up to
\* its first yield.  An exception of the first chunk is caught here.
\* History kept in last: the markers attached before and right after the
\* removal step, whether the previous run is at most one validity period old,
\* the identifiers that had exactly one marker when the run began, and
\* whether the run follows a completed run of the same records directly.
MarkExisting(op, data) ==
  \E dc \in {updateDomCache(dom, domCache, now)} :
  \E d1 \in {removeExistingHighlightsBatch(dom, dc)} :
  \E items \in {PageHighlights(data)} :
  \E r \in {IF items = <<>>
            THEN [w |-> World(d1, nodeIndex, textNodeCache, EmptyMap),
                  currentIndex |-> 0, again |-> FALSE]
            ELSE processChunk(World(d1, nodeIndex, textNodeCache, EmptyMap),
                              now, items, 0)} :
     /\ counts.renders < MaxRenders
     /\ counts' = [counts EXCEPT !.renders = @ + 1]
     /\ domCache' = dc
     /\ dom' = r.w.dom
     /\ nodeIndex' = r.w.idx
     /\ textNodeCache' = r.w.cand
     /\ cachedAt' = Stamped(r.w.cand, cachedAt, now)
     /\ savedHighlights' = r.w.saved
     /\ batches' = IF r.again
                   THEN Append(batches, [items |-> items,
                                         currentIndex |-> r.currentIndex])
                   ELSE batches
     /\ fresh' = (fresh /\ r.w.dom = dom)
     /\ last' = [NoLast EXCEPT
                   !.op = op,
                   !.escaped = IF r.w.threw THEN "caller" ELSE "none",
                   !.afterRemoval = Len(QuerySavedHighlights(d1)),
                   !.beforeRemoval = Len(QuerySavedHighlights(dom)),
                   !.recent = /\ domCache.has
                              /\ now - domCache.lastCacheTime
                                   <= CacheValidityDuration,
                   !.onceBefore =
                      {h.id : h \in {x \in SeqToSet(items) :
                                       Cardinality(MarkersOfId(dom, x.id)) = 1}},
                   !.quiet = /\ last.op \in {"render", "chunk"}
                             /\ last.escaped = "none"
                             /\ batches = <<>>
                             /\ data = savedHighlightsData,
                   !.hitAges = HitAges(r.w.hits, cachedAt, now),
                   !.walks = r.w.walks,
                   !.sinceWalk = SinceWalk(nodeIndex, now),
                   !.textKept = (DocumentText(r.w.dom) = DocumentText(dom)),
                   !.stale = r.w.stale]

\* init(): loadSavedHighlights resolved, then markExistingHighlights
initWith(list) ==
  /\ ~loaded
  /\ loaded' = TRUE
  /\ savedHighlightsData' = list
  /\ MarkExisting("render", list)
  /\ UNCHANGED cacheVars
  /\ UNCHANGED backgroundVars
  /\ UNCHANGED retryVars
  /\ UNCHANGED summaryVars
  /\ UNCHANGED eventVars
  /\ UNCHANGED << now, pendingHighlight, inFlight, nextId, replaced >>

InitLoad(list) == list \in StoredLists /\ initWith(list)

\* the visibilitychange handler with the document visible
VisibilityChange ==
  /\ MarkExisting("render", savedHighlightsData)
  /\ UNCHANGED cacheVars
  /\ UNCHANGED backgroundVars
  /\ UNCHANGED retryVars
  /\ UNCHANGED summaryVars
  /\ UNCHANGED eventVars
  /\ UNCHANGED << now, savedHighlightsData, loaded, pendingHighlight, inFlight,
                  nextId, replaced >>

\* a processChunk callback run by the host scheduler; its exception reaches
\* the scheduler and the run schedules nothing further
ChunkCallback(i) ==
  /\ i \in 1..Len(batches)
  /\ \E b \in {batches[i]} :
     \E r \in {processChunk(World(dom, nodeIndex, textNodeCache, savedHighlights),
                            now, b.items, b.currentIndex)} :
        /\ dom' = r.w.dom
        /\ nodeIndex' = r.w.idx
        /\ textNodeCache' = r.w.cand
        /\ cachedAt' = Stamped(r.w.cand, cachedAt, now)
        /\ savedHighlights' = r.w.saved
        /\ batches' = IF r.again
                      THEN Append(RemoveAt(batches, i),
                                  [items |-> b.items,
                                   currentIndex |-> r.currentIndex])
                      ELSE RemoveAt(batches, i)
        /\ fresh' = (fresh /\ r.w.dom = dom)
        /\ last' = [NoLast EXCEPT
                      !.op = "chunk",
                      !.escaped = IF r.w.threw THEN "scheduler" ELSE "none",
                      !.hitAges = HitAges(r.w.hits, cachedAt, now),
                   !.walks = r.w.walks,
                   !.sinceWalk = SinceWalk(nodeIndex, now),
                   !.textKept = (DocumentText(r.w.dom) = DocumentText(dom)),
                   !.stale = r.w.stale]
  /\ UNCHANGED cacheVars
  /\ UNCHANGED backgroundVars
  /\ UNCHANGED retryVars
  /\ UNCHANGED summaryVars
  /\ UNCHANGED eventVars
  /\ UNCHANGED << now, domCache, savedHighlightsData, loaded, pendingHighlight,
                  inFlight, nextId, replaced, counts >>

\* the page replaces a leaf that the stored range refers to by a new leaf with
\* the same text, at the same place or at the end of the body
PageReplace(n, where) ==
  /\ counts.mutations < MaxMutations
  /\ n \in AttachedLeaves(dom)
  /\ pendingHighlight.has
  /\ n \in {pendingHighlight.range.sn, pendingHighlight.range.en}
  /\ where \in {"inplace", "append"}
  /\ LET new == Len(dom) + 1
         d1 == Append(dom, TextNode(dom[n].data, NoNode))
     IN dom' = IF where = "inplace" THEN ReplaceChild(d1, new, n)
               ELSE InsertChildAt(Detach(d1, n), Body,
                                  Len(d1[Body].kids) + 1 -
                                    (IF d1[n].parent = Body THEN 1 ELSE 0),
                                  new)
  /\ replaced' = replaced \cup {n}
  /\ fresh' = FALSE
  /\ counts' = [counts EXCEPT !.mutations = @ + 1]
  /\ last' = [NoLast EXCEPT !.op = "mutate"]
  /\ UNCHANGED cacheVars
  /\ UNCHANGED backgroundVars
  /\ UNCHANGED retryVars
  /\ UNCHANGED summaryVars
  /\ UNCHANGED eventVars
  /\ UNCHANGED << now, nodeIndex, textNodeCache, cachedAt, domCache, savedHighlights,
                  savedHighlightsData, loaded, pendingHighlight, inFlight,
                  batches, nextId >>

\* 30 s pass
Tick ==
  /\ now < MaxTime
  /\ now' = now + 1
  /\ UNCHANGED cacheVars
  /\ UNCHANGED backgroundVars
  /\ UNCHANGED retryVars
  /\ UNCHANGED summaryVars
  /\ UNCHANGED eventVars
  /\ UNCHANGED << dom, nodeIndex, textNodeCache, cachedAt, domCache, savedHighlights,
                  savedHighlightsData, loaded, pendingHighlight, inFlight,
                  batches, nextId, fresh, replaced, counts, last >>

Next ==
  \/ \E list \in StoredLists : InitLoad(list)
  \/ VisibilityChange
  \/ \E i \in 1..Len(batches) : ChunkCallback(i)
  \/ \E r \in Selections(dom) : TextSelection(r)
  \/ SaveClick
  \/ \E i \in 1..Len(inFlight), outcome \in SaveOutcomes :
       SaveResponse(i, outcome)
  \/ \E n \in AttachedLeaves(dom), where \in {"inplace", "append"} :
       PageReplace(n, where)
  \/ Tick

Spec == Init /\ [][Next]_vars

\* ------------------------------------------- marking and unmarking alone
\* Lists that importHighlights (background.js 195-207) lets into storage: it
\* keeps every record whose id, text, url and timestamp are truthy, and a
\* text of blanks is truthy.
ImportedLists ==
  { << Highlight(1, TxtC, "here") >>,
    << Highlight(1, TxtSpace, "here") >>,
    << Highlight(1, TxtAbC, "here"), Highlight(2, TxtSpace, "here") >>,
    << Highlight(1, TxtAb, "here") >>,
    << Highlight(1, TxtBC, "here"), Highlight(2, TxtC, "here") >>,
    << Highlight(1, TxtSpaceC, "here") >>,
    << Highlight(1, TxtC, "here"), Highlight(2, TxtAb, "here") >>,
    << Highlight(1, TxtSpace, "here"), Highlight(2, TxtC, "other") >>,
    << Highlight(1, TxtAbC, "here"), Highlight(2, TxtZz, "here"),
       Highlight(3, TxtZz, "here"), Highlight(4, TxtZz, "other"),
       Highlight(5, TxtZz, "here"), Highlight(6, TxtZz, "here"),
       Highlight(7, TxtBC, "here") >> }

MarkingNext ==
  \/ \E list \in ImportedLists : initWith(list)
  \/ VisibilityChange
  \/ \E i \in 1..Len(batches) : ChunkCallback(i)
  \/ Tick

MarkingSpec == Init /\ [][MarkingNext]_vars

\* ------------------------------------------------------- the locator alone
\* findTextNodesOptimized on documents of up to MaxLeaves leaves: every leaf
\* reads "ab c" but at most one, which reads "c" or "zz"
LocatorFragments == {TxtC, TxtAb, TxtBC, TxtAbC}

LocatorDom(texts) ==
  << ElemNode("elem", [i \in 1..Len(texts) |-> i + 1], NoNode, 0) >>
    \o [i \in 1..Len(texts) |-> TextNode(texts[i], Body)]

LocatorDocs ==
  { LocatorDom([i \in 1..n |-> IF i = k THEN t ELSE TxtAbC]) :
      n \in 0..MaxLeaves, k \in 0..MaxLeaves, t \in {TxtC, TxtZz} }

LocatorInit ==
  /\ dom \in LocatorDocs
  /\ now = StartTime
  /\ nodeIndex = NoIndex
  /\ textNodeCache = EmptyMap
  /\ cachedAt = EmptyMap
  /\ summaryCache = <<>>
  /\ textNodeMap = <<>>
  /\ lastCleanup = StartTime
  /\ stored = <<>>
  /\ handlers = {}
  /\ responses = <<>>
  /\ day = StartDay
  /\ bgLog = NoBackgroundLog
  /\ retry = NoRetry
  /\ apiRequestQueue = <<>>
  /\ calls = {}
  /\ waiting = {}
  /\ summaryLog = NoSummaryLog
  /\ clock = StartClock
  /\ selectionTimeout = NoTimeout
  /\ lastSelectionTime = 0
  /\ timers = {}
  /\ selectionLog = NoSelectionLog
  /\ domCache = NoDomCache
  /\ savedHighlights = EmptyMap
  /\ savedHighlightsData = <<>>
  /\ loaded = FALSE
  /\ pendingHighlight = NoPending
  /\ inFlight = <<>>
  /\ batches = <<>>
  /\ nextId = FirstNewId
  /\ fresh = FALSE
  /\ replaced = {}
  /\ counts = [selections |-> 0, saves |-> 0, renders |-> 0, mutations |-> 0,
             resolves |-> 0, summaries |-> 0, chunks |-> 0, runs |-> 0,
             events |-> 0, requests |-> 0, calls |-> 0, settled |-> 0, fragments |-> 0,
             messages |-> 0, mousedowns |-> 0, clicks |-> 0, saved |-> {}]
  /\ last = NoLast

\* a call of findTextNodesOptimized(searchText)
Locate(searchText) ==
  /\ searchText \in LocatorFragments
  /\ LET f == findTextNodesOptimized(dom, nodeIndex, now, searchText)
     IN /\ nodeIndex' = f.idx
        /\ last' = [NoLast EXCEPT !.op = "locate", !.text = searchText,
                                  !.candidates = f.nodes,
                                  !.walks = IF f.walked THEN 1 ELSE 0,
                                  !.sinceWalk = SinceWalk(nodeIndex, now)]
  /\ UNCHANGED cacheVars
  /\ UNCHANGED backgroundVars
  /\ UNCHANGED retryVars
  /\ UNCHANGED summaryVars
  /\ UNCHANGED eventVars
  /\ UNCHANGED << dom, now, textNodeCache, cachedAt, domCache, savedHighlights,
                  savedHighlightsData, loaded, pendingHighlight, inFlight,
                  batches, nextId, fresh, replaced, counts >>

\* the page removes its first leaf
LeafRemoved ==
  /\ counts.mutations < MaxMutations
  /\ dom[Body].kids # <<>>
  /\ dom' = Detach(dom, Head(dom[Body].kids))
  /\ counts' = [counts EXCEPT !.mutations = @ + 1]
  /\ last' = [NoLast EXCEPT !.op = "mutate"]
  /\ UNCHANGED cacheVars
  /\ UNCHANGED backgroundVars
  /\ UNCHANGED retryVars
  /\ UNCHANGED summaryVars
  /\ UNCHANGED eventVars
  /\ UNCHANGED << now, nodeIndex, textNodeCache, cachedAt, domCache, savedHighlights,
                  savedHighlightsData, loaded, pendingHighlight, inFlight,
                  batches, nextId, fresh, replaced >>

LocatorNext ==
  \/ \E searchText \in LocatorFragments : Locate(searchText)
  \/ LeafRemoved
  \/ Tick

LocatorSpec == LocatorInit /\ [][LocatorNext]_vars

\* ------------------------------------------------------ the resolver alone
\* findBestTextNode on bodies of ResolverLeaves leaves, for every candidate
\* list over them, with and without captured context and position
TxtZzC == <<"z", "z", " ", "c">>
TxtUpperAbC == <<"A", "B", " ", "c">>
TxtAbAbC == <<"a", "b", " ", "a", "b", " ", "c">>
TxtQ == <<"q">>

\* "c xx...x ab": the match at 0, 49 further characters inside the context
\* window, and " ab" beyond it
TxtLong == <<"c", " ">> \o [i \in 1..(ContextRadius - 1) |-> "x"] \o <<" ", "a", "b">>

ResolverTexts == {TxtAbC, TxtZzC, TxtZz, TxtLong}

ResolverContexts == {<<>>, TxtAbC, TxtUpperAbC, TxtAbAbC, TxtQ}

ResolverPositions ==
  {NoPosition} \cup
  {[has |-> TRUE, top |-> t, left |-> 0] : t \in {0, 25}} \cup
  {[has |-> TRUE, top |-> 10, left |-> 40]}

ResolverDocs == {LocatorDom(texts) : texts \in [1..ResolverLeaves -> ResolverTexts]}

\* the candidate lists: leaves of the body, attached or not, without repetition
CandidateLists(d) ==
  {c \in UNION {[1..k -> 2..Len(d)] : k \in 1..ResolverLeaves} :
     \A i, j \in 1..Len(c) : c[i] = c[j] => i = j}

ResolverInit ==
  /\ dom \in ResolverDocs
  /\ pendingHighlight \in
       {[NoPending EXCEPT !.has = TRUE, !.text = TxtC, !.surroundingText = c,
                          !.textPosition = p] :
          c \in ResolverContexts, p \in ResolverPositions}
  /\ now = StartTime
  /\ nodeIndex = NoIndex
  /\ textNodeCache = EmptyMap
  /\ cachedAt = EmptyMap
  /\ summaryCache = <<>>
  /\ textNodeMap = <<>>
  /\ lastCleanup = StartTime
  /\ stored = <<>>
  /\ handlers = {}
  /\ responses = <<>>
  /\ day = StartDay
  /\ bgLog = NoBackgroundLog
  /\ retry = NoRetry
  /\ apiRequestQueue = <<>>
  /\ calls = {}
  /\ waiting = {}
  /\ summaryLog = NoSummaryLog
  /\ clock = StartClock
  /\ selectionTimeout = NoTimeout
  /\ lastSelectionTime = 0
  /\ timers = {}
  /\ selectionLog = NoSelectionLog
  /\ domCache = NoDomCache
  /\ savedHighlights = EmptyMap
  /\ savedHighlightsData = <<>>
  /\ loaded = FALSE
  /\ inFlight = <<>>
  /\ batches = <<>>
  /\ nextId = FirstNewId
  /\ fresh = FALSE
  /\ replaced = {}
  /\ counts = [selections |-> 0, saves |-> 0, renders |-> 0, mutations |-> 0,
             resolves |-> 0, summaries |-> 0, chunks |-> 0, runs |-> 0,
             events |-> 0, requests |-> 0, calls |-> 0, settled |-> 0, fragments |-> 0,
             messages |-> 0, mousedowns |-> 0, clicks |-> 0, saved |-> {}]
  /\ last = NoLast

\* the score that findNodeByContext computes for a candidate, [num, den], or
\* no score ([num |-> -1, den |-> 1]) for a candidate without the text
ScoreOf(d, node, text, surroundingText) ==
  IF ~Includes(d[node].data, text) THEN [num |-> -1, den |-> 1]
  ELSE calculateContextSimilarity(
         surroundingText,
         getNodeContext(d[node].data, IndexOfText(d[node].data, text), Len(text)))

\* a call of findBestTextNode(textNodes, text) with the captured data
Resolve(textNodes) ==
  /\ textNodes \in CandidateLists(dom)
  /\ counts.resolves < MaxResolves
  /\ counts' = [counts EXCEPT !.resolves = @ + 1]
  /\ last' = [NoLast EXCEPT
                !.op = "resolve", !.text = pendingHighlight.text,
                !.candidates = textNodes,
                !.best = findBestTextNode(dom, textNodes, pendingHighlight.text,
                                          pendingHighlight.surroundingText,
                                          pendingHighlight.textPosition),
                !.scores = [i \in 1..Len(textNodes) |->
                              ScoreOf(dom, textNodes[i], pendingHighlight.text,
                                      pendingHighlight.surroundingText)]]
  /\ UNCHANGED cacheVars
  /\ UNCHANGED backgroundVars
  /\ UNCHANGED retryVars
  /\ UNCHANGED summaryVars
  /\ UNCHANGED eventVars
  /\ UNCHANGED << dom, now, nodeIndex, textNodeCache, cachedAt, domCache,
                  savedHighlights, savedHighlightsData, loaded, pendingHighlight,
                  inFlight, batches, nextId, fresh, replaced >>

\* the page removes a leaf; a cached candidate list keeps the reference
LeafDetached(n) ==
  /\ counts.mutations < MaxMutations
  /\ n \in AttachedLeaves(dom)
  /\ dom' = Detach(dom, n)
  /\ counts' = [counts EXCEPT !.mutations = @ + 1]
  /\ last' = [NoLast EXCEPT !.op = "mutate"]
  /\ UNCHANGED cacheVars
  /\ UNCHANGED backgroundVars
  /\ UNCHANGED retryVars
  /\ UNCHANGED summaryVars
  /\ UNCHANGED eventVars
  /\ UNCHANGED << now, nodeIndex, textNodeCache, cachedAt, domCache,
                  savedHighlights, savedHighlightsData, loaded, pendingHighlight,
                  inFlight, batches, nextId, fresh, replaced >>

ResolverNext ==
  \/ \E textNodes \in CandidateLists(dom) : Resolve(textNodes)
  \/ \E n \in AttachedLeaves(dom) : LeafDetached(n)

ResolverSpec == ResolverInit /\ [][ResolverNext]_vars

\* ---------------------------------------------- memory management alone
\* The cache runs begin two clock units before the first cleanup is due, with
\* nothing cached so far.
CacheInit ==
  /\ dom = InitialDom
  /\ now = StartTime + CleanupPeriod - 2
  /\ nodeIndex = NoIndex
  /\ textNodeCache = EmptyMap
  /\ cachedAt = EmptyMap
  /\ domCache = NoDomCache
  /\ savedHighlights = EmptyMap
  /\ savedHighlightsData = <<>>
  /\ loaded = TRUE
  /\ pendingHighlight = NoPending
  /\ inFlight = <<>>
  /\ batches = <<>>
  /\ nextId = FirstNewId
  /\ fresh = FALSE
  /\ replaced = {}
  /\ counts = [selections |-> 0, saves |-> 0, renders |-> 0, mutations |-> 0,
               resolves |-> 0, summaries |-> 0, chunks |-> 0, runs |-> 0,
             events |-> 0, requests |-> 0, calls |-> 0, settled |-> 0, fragments |-> 0,
             messages |-> 0, mousedowns |-> 0, clicks |-> 0, saved |-> {}]
  /\ last = NoLast
  /\ summaryCache = <<>>
  /\ textNodeMap = <<>>
  /\ lastCleanup = StartTime
  /\ stored = <<>>
  /\ handlers = {}
  /\ responses = <<>>
  /\ day = StartDay
  /\ bgLog = NoBackgroundLog
  /\ retry = NoRetry
  /\ apiRequestQueue = <<>>
  /\ calls = {}
  /\ waiting = {}
  /\ summaryLog = NoSummaryLog
  /\ clock = StartClock
  /\ selectionTimeout = NoTimeout
  /\ lastSelectionTime = 0
  /\ timers = {}
  /\ selectionLog = NoSelectionLog

pageVars ==
  << dom, nodeIndex, textNodeCache, cachedAt, savedHighlightsData, loaded,
     pendingHighlight, inFlight, batches, nextId, fresh, replaced,
     clock, selectionTimeout, lastSelectionTime, timers, selectionLog,
     apiRequestQueue, calls, waiting, summaryLog,
     retry,
     stored, handlers, responses, day, bgLog >>

\* performSummarizeRequest with a successful response, for a highlight that
\* has no cached summary
CacheSummary ==
  /\ counts.summaries < MaxSummaryWrites
  /\ counts' = [counts EXCEPT !.summaries = @ + 1]
  /\ summaryCache' = MapSet(summaryCache,
                            Entry(counts.summaries + 1, TRUE, now, now))
  /\ last' = [NoLast EXCEPT !.op = "summary"]
  /\ UNCHANGED << now, domCache, savedHighlights, textNodeMap, lastCleanup >>
  /\ UNCHANGED pageVars

\* the cache writes of one chunk of processInChunks whose ChunkSize fragments
\* have no cached candidate list: getAllTextNodes for fragments of 3 or more
\* characters (long), then textNodeCache.set(cacheKey, textNodes) per fragment
RECURSIVE SetCandidates(_, _, _, _)
SetCandidates(cache, firstKey, n, t) ==
  IF n = 0 THEN cache
  ELSE SetCandidates(MapSet(cache, Entry(firstKey, FALSE, 0, t)),
                     firstKey + 1, n - 1, t)

IndexIsFresh(cache, t) ==
  /\ MapHas(cache, AllTextNodesKey)
  /\ t - MapGet(cache, AllTextNodesKey).timestamp < CacheValidityDuration

CacheChunk(long) ==
  /\ counts.chunks < MaxChunks
  /\ counts' = [counts EXCEPT !.chunks = @ + 1]
  /\ textNodeMap' =
       SetCandidates(IF long /\ ~IndexIsFresh(textNodeMap, now)
                     THEN MapSet(textNodeMap,
                                 Entry(AllTextNodesKey, TRUE, now, now))
                     ELSE textNodeMap,
                     counts.chunks * ChunkSize + 1, ChunkSize, now)
  /\ last' = [NoLast EXCEPT !.op = "chunk"]
  /\ UNCHANGED << now, domCache, savedHighlights, summaryCache, lastCleanup >>
  /\ UNCHANGED pageVars

\* performMemoryCleanup, run by the interval timer: cleanupExpiredCaches,
\* limitCacheSizes, cleanupDomReferences
Sweep ==
  /\ now - lastCleanup >= CleanupPeriod
  /\ \E nodes \in {limitCacheSize(
                       cleanupExpired(textNodeMap, now, CacheValidityDuration),
                       MaxTextNodesCache)} :
     \E summaries \in {limitCacheSize(
                          cleanupExpired(summaryCache, now, SummaryValidity),
                          MaxSummaryCacheSize)} :
       /\ textNodeMap' = nodes.cache
       /\ summaryCache' = summaries.cache
       /\ last' = [NoLast EXCEPT
                     !.op = "sweep",
                     !.evicted = [summaries |-> summaries.evicted,
                                  nodes |-> nodes.evicted]]
  /\ domCache' = IF now - domCache.lastCacheTime > CacheValidityDuration
                 THEN [domCache EXCEPT !.has = FALSE, !.existingHighlights = <<>>]
                 ELSE domCache
  /\ savedHighlights' =
       [id \in {k \in DOMAIN savedHighlights :
                  savedHighlights[k] # NoNode
                  /\ dom[savedHighlights[k]].parent # NoNode} |->
          savedHighlights[id]]
  /\ lastCleanup' = now
  /\ UNCHANGED << now, counts >>
  /\ UNCHANGED pageVars

CacheTick ==
  /\ now < MaxCacheTime
  /\ now' = now + 1
  /\ UNCHANGED << domCache, savedHighlights, counts, last >>
  /\ UNCHANGED cacheVars
  /\ UNCHANGED backgroundVars
  /\ UNCHANGED retryVars
  /\ UNCHANGED summaryVars
  /\ UNCHANGED eventVars
  /\ UNCHANGED pageVars

SummaryCacheNext == CacheSummary \/ Sweep \/ CacheTick

SummaryCacheSpec == CacheInit /\ [][SummaryCacheNext]_vars

NodeCacheNext == (\E long \in BOOLEAN : CacheChunk(long)) \/ Sweep \/ CacheTick

NodeCacheSpec == CacheInit /\ [][NodeCacheNext]_vars

\* ------------------------------------------------- processInChunks alone
\* processInChunks with any processor: an item is TRUE when the processor
\* throws on it.  The lists have at most one such item.
ItemsWith(n, bad) == [i \in 1..n |-> i = bad]

SchedulerItems == {ItemsWith(n, bad) : n \in 0..MaxItems, bad \in 0..MaxItems}

\* one run of processChunk over such a list:
\* [threw, processed, applied, currentIndex, again]; applied lists the
\* positions of the items the processor was called with, in call order
runChunkUnsliced(items, currentIndex) ==
  [threw |-> FALSE,
   processed |-> Len(items) - currentIndex,
   applied |-> [k \in 1..(Len(items) - currentIndex) |-> currentIndex + k],
   currentIndex |-> currentIndex + ChunkSize,
   again |-> ScheduleNext(currentIndex + ChunkSize, Len(items))]

runChunk(items, currentIndex) ==
  LET chunk == SubSeq(items, currentIndex + 1,
                      IF currentIndex + ChunkSize < Len(items)
                      THEN currentIndex + ChunkSize ELSE Len(items))
      threw == \E i \in 1..Len(chunk) : chunk[i]
  IN [threw |-> threw,
      processed |-> IF threw
                    THEN Least({i \in 1..Len(chunk) : chunk[i]}) - 1
                    ELSE Len(chunk),
      applied |-> [k \in 1..(IF threw
                             THEN Least({i \in 1..Len(chunk) : chunk[i]})
                             ELSE Len(chunk)) |-> currentIndex + k],
      currentIndex |-> IF threw THEN currentIndex ELSE currentIndex + ChunkSize,
      again |-> ~threw /\ ScheduleNext(currentIndex + ChunkSize, Len(items))]

SchedulerInit == CacheInit

schedulerFrame ==
  << dom, now, nodeIndex, textNodeCache, cachedAt, domCache, savedHighlights,
     savedHighlightsData, loaded, pendingHighlight, inFlight, nextId, fresh,
     replaced,
     clock, selectionTimeout, lastSelectionTime, timers, selectionLog,
     apiRequestQueue, calls, waiting, summaryLog,
     retry,
     stored, handlers, responses, day, bgLog >>

\* processInChunks(items, processor): returns at once for no items, else runs
\* the first processChunk in the caller.  History kept in last: the length of
\* the list, the chunks run, the callbacks requested from the host, and the
\* items the processor returned from.
RunInChunks(items) ==
  /\ counts.runs = 0
  /\ counts' = [counts EXCEPT !.runs = @ + 1]
  /\ IF items = <<>>
     THEN /\ batches' = batches
          /\ last' = [NoLast EXCEPT !.op = "run"]
     ELSE \E r \in {runChunk(items, 0)} :
            /\ batches' = IF r.again
                          THEN Append(batches, [items |-> items,
                                                currentIndex |-> r.currentIndex])
                          ELSE batches
            /\ last' = [NoLast EXCEPT
                          !.op = "run",
                          !.escaped = IF r.threw THEN "caller" ELSE "none",
                          !.n = Len(items),
                          !.chunks = 1,
                          !.yields = IF r.again THEN 1 ELSE 0,
                          !.processed = r.processed,
                          !.applied = r.applied,
                          !.sync = Len(r.applied)]
  /\ UNCHANGED cacheVars
  /\ UNCHANGED backgroundVars
  /\ UNCHANGED retryVars
  /\ UNCHANGED summaryVars
  /\ UNCHANGED eventVars
  /\ UNCHANGED schedulerFrame

\* processChunk run by the host (requestIdleCallback or setTimeout)
HostCallback ==
  /\ batches # <<>>
  /\ \E b \in {Head(batches)} :
     \E r \in {runChunk(b.items, b.currentIndex)} :
       /\ batches' = IF r.again
                     THEN Append(Tail(batches),
                                 [items |-> b.items,
                                  currentIndex |-> r.currentIndex])
                     ELSE Tail(batches)
       /\ last' = [last EXCEPT
                     !.op = "callback",
                     !.escaped = IF r.threw THEN "scheduler" ELSE "none",
                     !.chunks = @ + 1,
                     !.yields = @ + (IF r.again THEN 1 ELSE 0),
                     !.processed = @ + r.processed,
                     !.applied = @ \o r.applied,
                     !.sync = Len(r.applied)]
  /\ UNCHANGED counts
  /\ UNCHANGED cacheVars
  /\ UNCHANGED backgroundVars
  /\ UNCHANGED retryVars
  /\ UNCHANGED summaryVars
  /\ UNCHANGED eventVars
  /\ UNCHANGED schedulerFrame

SchedulerNext == (\E items \in SchedulerItems : RunInChunks(items)) \/ HostCallback

SchedulerSpec == SchedulerInit /\ [][SchedulerNext]_vars

\* the host runs every callback it was asked to run (requestIdleCallback with
\* timeout 100, or setTimeout)
SchedulerFairSpec == SchedulerSpec /\ WF_vars(HostCallback)

\* ------------------------------------------------ selection debouncer alone
\* The handler made by createDebouncedSelectionHandler with any callback that
\* returns; events are numbered in arrival order and a timer carries the
\* number of its event as handle.
LastOf(seq) == seq[Len(seq)]

debounceFrame ==
  << dom, now, nodeIndex, textNodeCache, cachedAt, domCache, savedHighlights,
     savedHighlightsData, loaded, pendingHighlight, inFlight, batches, nextId,
     fresh, replaced, apiRequestQueue, calls, waiting, summaryLog, retry,
     stored, handlers, responses, day, bgLog >>

\* a mouseup or keyup event reaches the debounced handler
SelectionEvent ==
  /\ counts.events < MaxEvents
  /\ counts' = [counts EXCEPT !.events = @ + 1]
  /\ \E e \in {counts.events + 1} :
     \E since \in {IF selectionLog.invoked = <<>> THEN -1
                   ELSE clock - LastOf(selectionLog.invoked).at} :
       IF Throttled(clock, lastSelectionTime)
       THEN /\ last' = [NoLast EXCEPT !.op = "event", !.event = e,
                                      !.sinceInvoke = since]
            /\ UNCHANGED << selectionTimeout, timers, selectionLog >>
       ELSE /\ timers' = clearTimeout(timers, selectionTimeout)
                           \cup {[id |-> e, due |-> clock + SelectionThrottleDelay,
                                  event |-> e]}
            /\ selectionTimeout' = e
            /\ selectionLog' =
                 [selectionLog EXCEPT
                    !.accepted = Append(@, [event |-> e, at |-> clock])]
            /\ last' = [NoLast EXCEPT !.op = "event", !.event = e,
                                      !.started = TRUE, !.sinceInvoke = since]
  /\ UNCHANGED << clock, lastSelectionTime >>
  /\ UNCHANGED cacheVars
  /\ UNCHANGED backgroundVars
  /\ UNCHANGED retryVars
  /\ UNCHANGED summaryVars
  /\ UNCHANGED debounceFrame

\* the host runs the callback of an armed timer, at its due time or later:
\* callback(event); this.lastSelectionTime = Date.now()
TimerFires(t) ==
  /\ t \in timers
  /\ clock >= t.due
  /\ timers' = timers \ {t}
  /\ lastSelectionTime' = clock
  /\ selectionLog' =
       [selectionLog EXCEPT
          !.invoked = Append(@, [event |-> t.event, at |-> clock])]
  /\ last' = [NoLast EXCEPT
                !.op = "invoke",
                !.event = t.event,
                !.waited = clock - LastOf(selectionLog.accepted).at,
                !.sinceInvoke = IF selectionLog.invoked = <<>> THEN -1
                                ELSE clock - LastOf(selectionLog.invoked).at]
  /\ UNCHANGED << clock, selectionTimeout, counts >>
  /\ UNCHANGED cacheVars
  /\ UNCHANGED backgroundVars
  /\ UNCHANGED retryVars
  /\ UNCHANGED summaryVars
  /\ UNCHANGED debounceFrame

\* EventUtils.cleanup: clearSelectionTimeout
EventCleanup ==
  /\ IF selectionTimeout # NoTimeout
     THEN /\ timers' = clearTimeout(timers, selectionTimeout)
          /\ selectionTimeout' = NoTimeout
     ELSE UNCHANGED << timers, selectionTimeout >>
  /\ selectionLog' =
       [selectionLog EXCEPT
          !.retired = {selectionLog.accepted[i].event :
                         i \in 1..Len(selectionLog.accepted)}]
  /\ last' = [NoLast EXCEPT !.op = "cleanup"]
  /\ UNCHANGED << clock, lastSelectionTime, counts >>
  /\ UNCHANGED cacheVars
  /\ UNCHANGED backgroundVars
  /\ UNCHANGED retryVars
  /\ UNCHANGED summaryVars
  /\ UNCHANGED debounceFrame

ClockTick ==
  /\ clock < MaxClock
  /\ clock' = clock + 1
  /\ UNCHANGED << selectionTimeout, lastSelectionTime, timers, selectionLog,
                  counts, last >>
  /\ UNCHANGED cacheVars
  /\ UNCHANGED backgroundVars
  /\ UNCHANGED retryVars
  /\ UNCHANGED summaryVars
  /\ UNCHANGED debounceFrame

DebounceNext ==
  \/ SelectionEvent
  \/ \E t \in timers : TimerFires(t)
  \/ EventCleanup
  \/ ClockTick

DebounceSpec == CacheInit /\ [][DebounceNext]_vars

\* Runs without EventUtils.cleanup in which the host runs every armed timer
\* and time goes on.  Events arrive only while the clock of the run leaves
\* room for their timer, so that no timer is cut off by the end of the run.
TimelySelectionEvent ==
  /\ clock + SelectionThrottleDelay <= MaxClock
  /\ SelectionEvent

SomeTimerFires == \E t \in timers : TimerFires(t)

DebounceFairNext == TimelySelectionEvent \/ SomeTimerFires \/ ClockTick

DebounceFairSpec ==
  /\ CacheInit
  /\ [][DebounceFairNext]_vars
  /\ WF_vars(SomeTimerFires)
  /\ WF_vars(ClockTick)

\* ------------------------------------------------------ summarization alone
\* simpleSummarize / performSummarizeRequest and the cleanup timer.  A run
\* begins either with nothing cached or right after the summaries of
\* MaxSummaryCacheSize + 1 highlights were cached within one clock unit.
SummaryKeys == 1..NumKeys

SummarizeInitAt(t, sizes) ==
  /\ dom = InitialDom
  /\ now = t
  /\ nodeIndex = NoIndex
  /\ textNodeCache = EmptyMap
  /\ cachedAt = EmptyMap
  /\ domCache = NoDomCache
  /\ savedHighlights = EmptyMap
  /\ savedHighlightsData = <<>>
  /\ loaded = TRUE
  /\ pendingHighlight = NoPending
  /\ inFlight = <<>>
  /\ batches = <<>>
  /\ nextId = FirstNewId
  /\ fresh = FALSE
  /\ replaced = {}
  /\ counts = [selections |-> 0, saves |-> 0, renders |-> 0, mutations |-> 0,
               resolves |-> 0, summaries |-> 0, chunks |-> 0, runs |-> 0,
               events |-> 0, requests |-> 0, calls |-> 0, settled |-> 0, fragments |-> 0,
             messages |-> 0, mousedowns |-> 0, clicks |-> 0, saved |-> {}]
  /\ last = NoLast
  /\ textNodeMap = <<>>
  /\ lastCleanup = StartTime
  /\ stored = <<>>
  /\ handlers = {}
  /\ responses = <<>>
  /\ day = StartDay
  /\ bgLog = NoBackgroundLog
  /\ retry = NoRetry
  /\ clock = StartClock
  /\ selectionTimeout = NoTimeout
  /\ lastSelectionTime = 0
  /\ timers = {}
  /\ selectionLog = NoSelectionLog
  /\ apiRequestQueue = <<>>
  /\ calls = {}
  /\ waiting = {}
  /\ \E n \in sizes :
       /\ summaryCache = Summarized(n, StartTime)
       /\ summaryLog = [NoSummaryLog EXCEPT
                          !.cachedAt = [k \in 1..n |-> StartTime]]

summarizeFrame ==
  << dom, nodeIndex, textNodeCache, cachedAt, domCache, savedHighlights,
     savedHighlightsData, loaded, pendingHighlight, inFlight, batches, nextId,
     fresh, replaced, textNodeMap, clock, selectionTimeout, lastSelectionTime,
     timers, selectionLog, retry,
     stored, handlers, responses, day, bgLog >>

\* simpleSummarize(highlight) up to its first await: answered from the cache,
\* or joined to the call in flight for the key, or a new call
SummarizeHighlight(highlight, key) ==
  /\ counts.requests < MaxRequests
  /\ \E req \in {counts.requests + 1} :
     \E call \in {counts.calls + 1} :
     \E served \in {CachedSummaryValid(summaryCache, key, now)} :
     \E joined \in {IF ~served /\ key \in DOMAIN apiRequestQueue
                    THEN apiRequestQueue[key] ELSE 0} :
     \E newCall \in {~served /\ joined = 0} :
       /\ counts' = [counts EXCEPT
                       !.requests = req,
                       !.calls = IF newCall THEN call ELSE @]
       /\ calls' = IF newCall THEN calls \cup {[id |-> call, key |-> key]}
                   ELSE calls
       /\ apiRequestQueue' = IF newCall
                             THEN QueueSet(apiRequestQueue, key, call)
                             ELSE apiRequestQueue
       /\ waiting' = IF served THEN waiting
                     ELSE waiting \cup
                            {[req |-> req,
                              call |-> IF newCall THEN call ELSE joined]}
       /\ summaryLog' =
            [summaryLog EXCEPT
               !.requests =
                  Append(@, [key |-> key,
                             highlight |-> highlight,
                             inFlight |-> {c.id : c \in {x \in calls : x.key = key}},
                             call |-> IF served THEN 0
                                      ELSE IF newCall THEN call ELSE joined,
                             own |-> newCall,
                             outcome |-> IF served THEN "cached" ELSE "pending"])]
       /\ last' = [NoLast EXCEPT
                     !.op = "summarize",
                     !.key = key,
                     !.sinceCached = IF key \in DOMAIN summaryLog.cachedAt
                                     THEN now - summaryLog.cachedAt[key] ELSE -1,
                     !.inStore = MapHas(summaryCache, key),
                     !.served = served,
                     !.newCall = newCall]
  /\ UNCHANGED << now, summaryCache, lastCleanup >>
  /\ UNCHANGED summarizeFrame

\* a request for a highlight that is told by its cache key alone
Summarize(key) == SummarizeHighlight(key, key)

\* the collaborator's response to a call, or the timeout of the message, and
\* what follows before the next event: performSummarizeRequest caches a
\* summary, every request awaiting the promise gets its outcome, and the
\* request that made the call deletes the queue entry of its key
Respond(c, ok) ==
  /\ c \in calls
  /\ calls' = calls \ {c}
  /\ summaryCache' = IF ok THEN MapSet(summaryCache, Entry(c.key, TRUE, now, now))
                     ELSE summaryCache
  /\ apiRequestQueue' = QueueDelete(apiRequestQueue, c.key)
  /\ waiting' = {w \in waiting : w.call # c.id}
  /\ summaryLog' =
       [summaryLog EXCEPT
          !.requests =
             [i \in 1..Len(@) |->
                IF @[i].outcome = "pending" /\ @[i].call = c.id
                THEN [@[i] EXCEPT !.outcome = IF ok THEN "result" ELSE "failure"]
                ELSE @[i]],
          !.outcome =
             [k \in (DOMAIN @) \cup {c.id} |->
                IF k = c.id THEN (IF ok THEN "result" ELSE "failure") ELSE @[k]],
          !.cachedAt =
             IF ok
             THEN [k \in (DOMAIN @) \cup {c.key} |->
                     IF k = c.key THEN now ELSE @[k]]
             ELSE @]
  /\ last' = [NoLast EXCEPT !.op = "response", !.key = c.key]
  /\ UNCHANGED << now, lastCleanup, counts >>
  /\ UNCHANGED summarizeFrame

SummarizeTick ==
  /\ now < MaxSummarizeTime
  /\ now' = now + 1
  /\ UNCHANGED << summaryCache, lastCleanup, counts, last >>
  /\ UNCHANGED summaryVars
  /\ UNCHANGED summarizeFrame

SummarizeNext ==
  \/ \E key \in SummaryKeys : Summarize(key)
  \/ \E c \in calls : \E ok \in BOOLEAN : Respond(c, ok)
  \/ Sweep
  \/ SummarizeTick

\* requests for several keys, over a short time
SummarizeInit == SummarizeInitAt(MaxSummarizeTime - 2, {0})

SummarizeSpec == SummarizeInit /\ [][SummarizeNext]_vars

\* summaries requested for highlights of one page: two texts that agree in
\* their first hundred characters, two that differ in a character that is
\* neither a letter nor a digit, and one of them under another title
HundredXs == [i \in 1..KeyTextLength |-> "x"]

KeyHighlight(text, title) == [text |-> text, url |-> <<"u">>, title |-> title]

KeyHighlights ==
  {KeyHighlight(HundredXs \o <<"a">>, <<"t">>),
   KeyHighlight(HundredXs \o <<"b">>, <<"t">>),
   KeyHighlight(<<"a", " ", "b">>, <<"t">>),
   KeyHighlight(<<"a", ".", "b">>, <<"t">>),
   KeyHighlight(<<"a", " ", "b">>, <<"T">>)}

CacheKeyNext ==
  \/ \E highlight \in KeyHighlights :
       SummarizeHighlight(highlight, generateSummaryCacheKey(highlight))
  \/ \E c \in calls : \E ok \in BOOLEAN : Respond(c, ok)
  \/ SummarizeTick

CacheKeySpec == SummarizeInit /\ [][CacheKeyNext]_vars

\* the save flow and the summarization together, as far as they talk to the
\* collaborators
CollaboratorNext ==
  \/ \E r \in Selections(dom) : TextSelection(r)
  \/ SaveClick
  \/ \E i \in 1..Len(inFlight), outcome \in SaveOutcomes :
       SaveResponse(i, outcome)
  \/ \E key \in SummaryKeys : Summarize(key)
  \/ \E c \in calls : \E ok \in BOOLEAN : Respond(c, ok)

CollaboratorSpec == SummarizeInit /\ [][CollaboratorNext]_vars

\* requests for one key, over more than one validity window
SummaryValidityInit == SummarizeInitAt(StartTime, {0, MaxSummaryCacheSize + 1})

SummaryValidityNext ==
  \/ Summarize(1)
  \/ \E c \in calls : \E ok \in BOOLEAN : Respond(c, ok)
  \/ Sweep
  \/ SummarizeTick

SummaryValiditySpec == SummaryValidityInit /\ [][SummaryValidityNext]_vars

\* ------------------------------------------------- deep-link retry alone
\* handleUrlFragmentWithRetry for the fragment text "ab c", on a page that
\* renders and removes that text at any time
RetryText == TxtAbC

RetryDocs == {LocatorDom(<<TxtZz>>), LocatorDom(<<TxtZz, TxtAbC>>)}

RetryInit == CacheInit

retryFrame ==
  << now, textNodeCache, cachedAt, domCache, savedHighlights,
     savedHighlightsData, loaded, pendingHighlight, inFlight, batches, nextId,
     fresh, replaced,
     stored, handlers, responses, day, bgLog >>

\* handleUrlFragmentWithRetry(callback): nothing without a highlight
\* parameter in the hash, else the first check is scheduled
HandleUrlFragment(hasHighlight) ==
  /\ counts.fragments = 0
  /\ counts' = [counts EXCEPT !.fragments = @ + 1]
  /\ retry' = IF hasHighlight
              THEN [NoRetry EXCEPT !.armed = TRUE, !.due = clock + RetryDelay,
                                   !.calledAt = clock]
              ELSE [NoRetry EXCEPT !.calledAt = clock]
  /\ last' = [NoLast EXCEPT !.op = "fragment"]
  /\ UNCHANGED << dom, nodeIndex, clock, selectionTimeout, lastSelectionTime,
                  timers, selectionLog >>
  /\ UNCHANGED cacheVars
  /\ UNCHANGED backgroundVars
  /\ UNCHANGED summaryVars
  /\ UNCHANGED retryFrame

\* tryScroll, run by the host at its due time or later; the callback is
\* scrollToAndHighlightText, which looks the text up through the node index
TryScroll ==
  /\ retry.armed
  /\ clock >= retry.due
  /\ \E attempts \in {retry.attempts + 1} :
     \E present \in {Includes(DocumentText(dom), RetryText)} :
       /\ retry' = [retry EXCEPT
                      !.attempts = attempts,
                      !.armed = ~present /\ RetryAgain(attempts, MaxAttempts),
                      !.due = clock + RetryDelay,
                      !.callbacks = @ + (IF present THEN 1 ELSE 0),
                      !.checks = Append(@, [at |-> clock,
                                            present |-> present])]
       /\ nodeIndex' = IF present
                       THEN findTextNodesOptimized(dom, nodeIndex, now,
                                                   RetryText).idx
                       ELSE nodeIndex
       /\ last' = [NoLast EXCEPT
                     !.op = "check",
                     !.present = present,
                     !.called = present]
  /\ UNCHANGED << dom, clock, selectionTimeout, lastSelectionTime, timers,
                  selectionLog, counts >>
  /\ UNCHANGED cacheVars
  /\ UNCHANGED backgroundVars
  /\ UNCHANGED summaryVars
  /\ UNCHANGED retryFrame

\* the page renders the text, or removes it
PageRenders(d) ==
  /\ d # dom
  /\ dom' = d
  /\ UNCHANGED << nodeIndex, clock, selectionTimeout, lastSelectionTime, timers,
                  selectionLog, counts, last >>
  /\ UNCHANGED cacheVars
  /\ UNCHANGED backgroundVars
  /\ UNCHANGED summaryVars
  /\ UNCHANGED retryVars
  /\ UNCHANGED retryFrame

\* time passes
RetryTick ==
  /\ clock < MaxRetryClock
  /\ clock' = clock + 1
  /\ UNCHANGED << dom, nodeIndex, selectionTimeout, lastSelectionTime, timers,
                  selectionLog, counts, last >>
  /\ UNCHANGED cacheVars
  /\ UNCHANGED backgroundVars
  /\ UNCHANGED summaryVars
  /\ UNCHANGED retryVars
  /\ UNCHANGED retryFrame

RetryNext ==
  \/ \E hasHighlight \in BOOLEAN : HandleUrlFragment(hasHighlight)
  \/ TryScroll
  \/ \E d \in RetryDocs : PageRenders(d)
  \/ RetryTick

RetrySpec == RetryInit /\ [][RetryNext]_vars

\* --------------------------------------------- background service alone
\* BackgroundService: every message starts one run of handleMessage, which
\* runs to its first await; a run goes on when the call it awaits settles.
\* Requests are numbered in arrival order and a saved highlight carries the
\* number of its request as identifier.
IdsOf(highlights) == {highlights[i].id : i \in 1..Len(highlights)}

Request(action, valid, id, timestamp) ==
  [action |-> action, valid |-> valid, id |-> id, timestamp |-> timestamp]

SaveRequests(req, t) ==
  {Request("saveHighlight", TRUE, req, 0), Request("saveHighlight", TRUE, req, t),
   Request("saveHighlight", FALSE, req, 0)}

DeleteRequests(ids) == {Request("deleteHighlight", TRUE, id, 0) : id \in ids}

OtherRequests(req, t) ==
  {Request(action, TRUE, 0, 0) :
     action \in {"getHighlights", "clearAllHighlights", "exportHighlights",
                 "cleanupHighlights"}}
  \cup {Request("importHighlights", valid, req, t) : valid \in BOOLEAN}
  \cup {Request("summarizeHighlight", valid, 0, 0) : valid \in BOOLEAN}

BackgroundInitWith(lists) ==
  /\ dom = InitialDom
  /\ now = StartTime + CleanupPeriod - 2
  /\ nodeIndex = NoIndex
  /\ textNodeCache = EmptyMap
  /\ cachedAt = EmptyMap
  /\ domCache = NoDomCache
  /\ savedHighlights = EmptyMap
  /\ savedHighlightsData = <<>>
  /\ loaded = TRUE
  /\ pendingHighlight = NoPending
  /\ inFlight = <<>>
  /\ batches = <<>>
  /\ nextId = FirstNewId
  /\ fresh = FALSE
  /\ replaced = {}
  /\ counts = [selections |-> 0, saves |-> 0, renders |-> 0, mutations |-> 0,
               resolves |-> 0, summaries |-> 0, chunks |-> 0, runs |-> 0,
             events |-> 0, requests |-> 0, calls |-> 0, settled |-> 0, fragments |-> 0,
             messages |-> 0, mousedowns |-> 0, clicks |-> 0, saved |-> {}]
  /\ last = NoLast
  /\ summaryCache = <<>>
  /\ textNodeMap = <<>>
  /\ lastCleanup = StartTime
  /\ stored \in lists
  /\ handlers = {}
  /\ responses = <<>>
  /\ day = StartDay
  /\ bgLog = NoBackgroundLog
  /\ retry = NoRetry
  /\ apiRequestQueue = <<>>
  /\ calls = {}
  /\ waiting = {}
  /\ summaryLog = NoSummaryLog
  /\ clock = StartClock
  /\ selectionTimeout = NoTimeout
  /\ lastSelectionTime = 0
  /\ timers = {}
  /\ selectionLog = NoSelectionLog

backgroundFrame ==
  << dom, now, nodeIndex, textNodeCache, cachedAt, domCache, savedHighlights,
     savedHighlightsData, loaded, pendingHighlight, inFlight, batches, nextId,
     fresh, replaced, last >>

Run(req, request, pc, highlights) ==
  [req |-> req, action |-> request.action, id |-> request.id,
   timestamp |-> request.timestamp, pc |-> pc, highlights |-> highlights]

\* chrome.runtime.onMessage: handleMessage up to its first await, or up to
\* its response when there is none
Receive(request) ==
  /\ counts.messages < MaxMessages
  /\ counts' = [counts EXCEPT !.messages = @ + 1]
  /\ \E req \in {counts.messages + 1} :
       /\ bgLog' = [bgLog EXCEPT
                      !.requests = Append(@, [action |-> request.action,
                                              valid |-> request.valid,
                                              id |-> request.id,
                                              threw |-> FALSE]),
                      !.deleted = IF request.action = "deleteHighlight"
                                  THEN @ \cup {request.id} ELSE @]
       /\ IF request.action \notin KnownActions
          THEN /\ responses' = Append(responses, <<Failure("Unknown action")>>)
               /\ UNCHANGED handlers
          ELSE IF ~ValidRequest(request)
          THEN /\ responses' = Append(responses,
                                      <<Failure(ValidationError(request))>>)
               /\ UNCHANGED handlers
          ELSE /\ responses' = Append(responses, <<>>)
               /\ handlers' = handlers \cup
                    {Run(req, request, FirstAwait(request.action),
                         IF request.action = "importHighlights"
                         THEN <<StoredHighlight(request.id, request.timestamp)>>
                         ELSE <<>>)}
  /\ UNCHANGED << stored, day >>
  /\ UNCHANGED cacheVars
  /\ UNCHANGED eventVars
  /\ UNCHANGED summaryVars
  /\ UNCHANGED retryVars
  /\ UNCHANGED backgroundFrame

\* the awaited call of a run rejects: the operation rethrows and the catch
\* block of handleMessage responds
Rejected(h) ==
  /\ handlers' = handlers \ {h}
  /\ responses' = sendResponse(responses, h.req,
                               Failure(OperationError(h.action)))
  /\ bgLog' = [bgLog EXCEPT !.requests[h.req].threw = TRUE]
  /\ UNCHANGED stored

\* chrome.storage.local.get settles for a run
StorageGet(h, ok) ==
  /\ h \in handlers
  /\ h.pc = "get"
  /\ IF ~ok THEN Rejected(h)
     ELSE IF h.action = "saveHighlight"
     THEN \E highlights \in
            {saveHighlightList(stored, StoredHighlight(h.id, h.timestamp), day)} :
            /\ handlers' = (handlers \ {h}) \cup
                 {[h EXCEPT !.pc = "set", !.highlights = highlights]}
            /\ bgLog' = [bgLog EXCEPT
                           !.cut = @ \cup ((IdsOf(stored) \cup {h.id})
                                           \ IdsOf(highlights))]
            /\ UNCHANGED << stored, responses >>
     ELSE IF h.action = "deleteHighlight"
     THEN /\ handlers' = (handlers \ {h}) \cup
               {[h EXCEPT !.pc = "set",
                          !.highlights = deleteHighlightList(stored, h.id)]}
          /\ UNCHANGED << stored, responses, bgLog >>
     ELSE /\ handlers' = handlers \ {h}
          /\ responses' = sendResponse(responses, h.req, Success)
          /\ UNCHANGED << stored, bgLog >>
  /\ UNCHANGED << day, counts >>
  /\ UNCHANGED cacheVars
  /\ UNCHANGED eventVars
  /\ UNCHANGED summaryVars
  /\ UNCHANGED retryVars
  /\ UNCHANGED backgroundFrame

\* chrome.storage.local.set settles for a run
StorageSet(h, ok) ==
  /\ h \in handlers
  /\ h.pc = "set"
  /\ IF ~ok THEN Rejected(h)
     ELSE /\ stored' = h.highlights
          /\ handlers' = handlers \ {h}
          /\ responses' = sendResponse(responses, h.req, Success)
          /\ bgLog' = [bgLog EXCEPT
                         !.acknowledged = IF h.action = "saveHighlight"
                                          THEN @ \cup {h.id} ELSE @]
  /\ UNCHANGED << day, counts >>
  /\ UNCHANGED cacheVars
  /\ UNCHANGED eventVars
  /\ UNCHANGED summaryVars
  /\ UNCHANGED retryVars
  /\ UNCHANGED backgroundFrame

\* the awaits of summarizeHighlight settle: a summary, or an exception of
\* getConfig or callOpenAI
SummarizerSettles(h, ok) ==
  /\ h \in handlers
  /\ h.pc = "call"
  /\ IF ~ok THEN Rejected(h)
     ELSE /\ handlers' = handlers \ {h}
          /\ responses' = sendResponse(responses, h.req, Success)
          /\ UNCHANGED << stored, bgLog >>
  /\ UNCHANGED << day, counts >>
  /\ UNCHANGED cacheVars
  /\ UNCHANGED eventVars
  /\ UNCHANGED summaryVars
  /\ UNCHANGED retryVars
  /\ UNCHANGED backgroundFrame

\* a day passes
DayPasses ==
  /\ day < MaxDay
  /\ day' = day + 1
  /\ UNCHANGED << stored, handlers, responses, bgLog, counts >>
  /\ UNCHANGED cacheVars
  /\ UNCHANGED eventVars
  /\ UNCHANGED summaryVars
  /\ UNCHANGED retryVars
  /\ UNCHANGED backgroundFrame

Settles ==
  \E h \in handlers, ok \in BOOLEAN :
    \/ StorageGet(h, ok)
    \/ StorageSet(h, ok)
    \/ SummarizerSettles(h, ok)

\* one highlight is stored, saved 365 days before the first day
BackgroundInit == BackgroundInitWith({StoredAt(1, 1)})

BackgroundNext ==
  \/ \E request \in SaveRequests(counts.messages + 1, day)
                    \cup DeleteRequests({0, 1})
                    \cup OtherRequests(counts.messages + 1, day) :
       Receive(request)
  \/ \E h \in handlers, ok \in BOOLEAN : StorageGet(h, ok)
  \/ \E h \in handlers, ok \in BOOLEAN : StorageSet(h, ok)
  \/ \E h \in handlers, ok \in BOOLEAN : SummarizerSettles(h, ok)
  \/ DayPasses

BackgroundSpec == BackgroundInit /\ [][BackgroundNext]_vars

\* the browser settles every awaited call and time goes on
BackgroundFairSpec ==
  /\ BackgroundSpec
  /\ WF_vars(Settles)
  /\ WF_vars(DayPasses)

\* saves and deletions alone, on an empty store and on one that is one short
\* of the cap
StorageRaceInit ==
  BackgroundInitWith({<<>>, StoredAt(MaxStoredHighlights - 1, 1)})

StorageRaceNext ==
  \/ \E request \in {r \in SaveRequests(counts.messages + 1, day)
                          \cup DeleteRequests(0..MaxMessages) :
                       (r.valid /\ r.timestamp # 0) \/ r.action = "deleteHighlight"} :
       Receive(request)
  \/ \E h \in handlers : StorageGet(h, TRUE)
  \/ \E h \in handlers : StorageSet(h, TRUE)

StorageRaceSpec == StorageRaceInit /\ [][StorageRaceNext]_vars

\* ------------------------------------------------- the Save button alone
\* createButton binds the same handler to mousedown and to click: one press
\* of the button is a mousedown event followed by a click event, the click
\* only if the button is still in the document, which it is until a save
\* succeeded and removed the popup
PopupShown == pendingHighlight.has

SaveMouseDown ==
  /\ counts.mousedowns < MaxSaves
  /\ counts.mousedowns = counts.clicks
  /\ PopupShown
  /\ handleSaveClick("down")

SaveButtonClick ==
  /\ counts.clicks < counts.mousedowns
  /\ PopupShown
  /\ handleSaveClick("click")

PressNext ==
  \/ \E r \in Selections(dom) : TextSelection(r)
  \/ SaveMouseDown
  \/ SaveButtonClick
  \/ \E i \in 1..Len(inFlight), outcome \in SaveOutcomes :
       SaveResponse(i, outcome)

PressSpec == Init /\ [][PressNext]_vars

\* ---------------------------------------------------------------- cleanup
\* HighlightSaver.cleanup, the handler of beforeunload, pagehide, unload and
\* of the cleanup message: eventUtils.cleanup clears the selection timer,
\* cacheManager.cleanup empties the stores the cache manager owns (the
\* candidate cache, the summary cache, the request map and the DOM cache, as
\* the cache-clearing lines of the single-class cleanup do), uiUtils.cleanup
\* removes the popup, and the pending selection and the map of saved
\* highlights are cleared. Nothing in it reaches the node index, which
\* DOMUtils owns and only DOMUtils.clearCache empties. Chunk callbacks and
\* collaborator calls already requested stay pending.
Cleanup ==
  /\ IF selectionTimeout # NoTimeout
     THEN /\ timers' = clearTimeout(timers, selectionTimeout)
          /\ selectionTimeout' = NoTimeout
     ELSE UNCHANGED << timers, selectionTimeout >>
  /\ selectionLog' =
       [selectionLog EXCEPT
          !.retired = {selectionLog.accepted[i].event :
                         i \in 1..Len(selectionLog.accepted)}]
  /\ textNodeCache' = EmptyMap
  /\ cachedAt' = EmptyMap
  /\ summaryCache' = <<>>
  /\ textNodeMap' = <<>>
  /\ apiRequestQueue' = <<>>
  /\ domCache' = NoDomCache
  /\ pendingHighlight' = NoPending
  /\ savedHighlights' = EmptyMap
  /\ last' = [NoLast EXCEPT !.op = "cleanup"]
  /\ UNCHANGED << dom, now, nodeIndex, savedHighlightsData, loaded, inFlight,
                  batches, nextId, fresh, replaced, counts, lastCleanup, clock,
                  lastSelectionTime, calls, waiting, summaryLog >>
  /\ UNCHANGED retryVars
  /\ UNCHANGED backgroundVars

\* the page with its stored highlights re-rendered, the summary of one
\* highlight requested and cleanup run at any time
CleanupNext ==
  \/ \E list \in StoredLists : InitLoad(list)
  \/ VisibilityChange
  \/ \E i \in 1..Len(batches) : ChunkCallback(i)
  \/ Summarize(1)
  \/ \E c \in calls : \E ok \in BOOLEAN : Respond(c, ok)
  \/ Cleanup
  \/ Tick

CleanupSpec == Init /\ [][CleanupNext]_vars

TypeOK ==
  /\ now \in StartTime..MaxSummarizeTime
  /\ Len(summaryCache) <= MaxSummaryWrites
  /\ Len(textNodeMap) <= MaxChunks * ChunkSize + 1
  /\ \A n \in 1..Len(dom) : dom[n].parent \in 0..Len(dom)

\* ------------------------------------------------------------------ claims
\* a save whose response arrived with selection data pending
SaveMaterialized == last.op = "save" /\ last.trace # <<>>

\* C1: in every reachable state at most one marker element tagged with a given
\* fragment identifier is attached to the document tree.
C1_AtMostOneMarkerPerId ==
  \A m1, m2 \in AttachedMarkers(dom) : dom[m1].hid = dom[m2].hid => m1 = m2

\* C2: right after the removal step of every re-render the document contains
\* no marker element, however recently the previous re-render ran.
C2_RemovalLeavesNoMarker ==
  last.op = "render" => last.afterRemoval = 0

\* a re-render that found markers attached and ran within one validity period
\* of the previous one
C2_Witness ==
  /\ last.op = "render"
  /\ last.recent
  /\ last.beforeRemoval > 0
  /\ last.afterRemoval = 0

\* C3: a re-render that directly follows a completed re-render of the same
\* records, on a tree nobody else touched, leaves exactly one marker for every
\* identifier that had exactly one marker after the first run, also when both
\* runs lie within one validity period of the caches.
C3_OneMarkerAfterSecondRun ==
  (last.op = "render" /\ last.quiet /\ batches = <<>>)
    => \A id \in last.onceBefore : Cardinality(MarkersOfId(dom, id)) = 1

\* C4: after the save flow marked a freshly captured selection on an unmodified
\* tree, the text content of the marker equals the stored fragment text.
C4_MarkerTextIsStoredText ==
  (SaveMaterialized /\ last.wasFresh /\ last.span # NoNode)
    => TextContent(dom, last.span) = last.text

\* C5: when the leaf of the stored range was replaced and an attached leaf with
\* the same text exists, the save flow produces an attached marker whose text
\* equals the fragment text.
C5_SurvivesReplacement ==
  (SaveMaterialized /\ last.wasReplaced)
    => /\ last.span # NoNode
       /\ Contains(dom, last.span)
       /\ TextContent(dom, last.span) = last.text

\* C6: no exception of the save-time path or of the re-anchoring path reaches
\* the caller or the host scheduler.
C6_NothingEscapes == last.escaped = "none"

\* the attempt sequences of the materializer: A alone, A then B, or C once or
\* twice without A and B
RebuiltTraces == { <<"A">>, <<"A", "B">> }
DirectTraces == { <<"C">>, <<"C", "C">> }

\* C7 as stated: state B is attempted only after state A was attempted and
\* failed, and state C only after state B was attempted and failed.
C7_LaterStateOnlyAfterPreceding ==
  SaveMaterialized =>
    \A i \in 1..Len(last.trace) :
      /\ last.trace[i] = "B" => i > 1 /\ last.trace[i - 1] = "A"
      /\ last.trace[i] = "C" => i > 1 /\ last.trace[i - 1] = "B"

\* C7 amended: a stored range that can be rebuilt is tried in state A and, when
\* A fails, in state B, which then succeeds; a stored range that cannot be
\* rebuilt sends the materializer directly to state C, which is attempted a
\* second time exactly when its first attempt threw.
C7_FallbackOrder ==
  SaveMaterialized =>
    /\ last.rangeOk => last.trace \in RebuiltTraces /\ last.span # NoNode
    /\ ~last.rangeOk => last.trace \in DirectTraces
    /\ last.trace = <<"C", "C">> => last.escaped = "caller"

\* state A failed on a rebuilt range and state B wrapped the passage
C7_Witness ==
  /\ SaveMaterialized
  /\ last.rangeOk
  /\ last.trace = <<"A", "B">>
  /\ Contains(dom, last.span)

\* the stored range could not be rebuilt and state C marked the passage
C7_WitnessDirect ==
  /\ SaveMaterialized
  /\ ~last.rangeOk
  /\ last.trace = <<"C">>
  /\ last.span # NoNode

\* C8: when the save-time materialization ends without a marker, no marker of
\* that identifier is attached and the text content of the document is what
\* it was before the call.
C8_NothingPartial ==
  (SaveMaterialized /\ last.span = NoNode)
    => MarkersOfId(dom, last.id) = {} /\ last.textKept

\* a materialization that ended in an exception after the passage was found in
\* a leaf that had left the tree
C8_Witness ==
  /\ SaveMaterialized
  /\ last.span = NoNode
  /\ last.escaped = "caller"
  /\ MarkersOfId(dom, last.id) = {}

\* C9: when no attached leaf contains the fragment text and the materializer
\* ends without a marker, the user is shown a failure and nothing is thrown.
C9_TextNotFoundIsReported ==
  (SaveMaterialized /\ ~last.found /\ last.span = NoNode)
    => last.feedback = "error" /\ last.escaped = "none"

\* the attached leaves whose text contains the fragment of the last call
MatchingLeaves == {n \in AttachedLeaves(dom) : Includes(dom[n].data, last.text)}

\* C10: findTextNodesOptimized returns at most 10 leaves for a fragment
\* shorter than 3 characters and at most 5 for a longer one, and the text of
\* every returned leaf contains the fragment.
C10_LocatorCap ==
  last.op = "locate" =>
    /\ Len(last.candidates) <= (IF Len(last.text) < 3 THEN 10 ELSE 5)
    /\ \A i \in 1..Len(last.candidates) :
         Includes(dom[last.candidates[i]].data, last.text)

\* a short fragment that more than 10 leaves contain, of which 10 were returned
C10_Witness ==
  /\ last.op = "locate"
  /\ Len(last.text) < 3
  /\ Cardinality(MatchingLeaves) > 10
  /\ Len(last.candidates) = 10

\* a long fragment that more than 5 leaves contain, of which 5 were returned
C10_WitnessLong ==
  /\ last.op = "locate"
  /\ Len(last.text) >= 3
  /\ Cardinality(MatchingLeaves) > 5
  /\ Len(last.candidates) = 5

\* C11: a re-render serves a cached candidate list only while the entry is
\* younger than the validity window of 30 s
C11_CachedListOnlyWhileValid ==
  \A i \in 1..Len(last.hitAges) : last.hitAges[i] < CacheValidityDuration

\* C12: between two traversals of getAllTextNodes at least one validity window
\* elapses: a call traverses at most once, and only if the index is missing
\* or was built a window or more ago
C12_IndexRebuiltOncePerWindow ==
  /\ last.walks <= 1
  /\ (last.walks = 1 /\ last.sinceWalk # -1)
       => last.sinceWalk >= CacheValidityDuration

\* a second traversal, after the window, by a call that locates a long fragment
C12_Witness ==
  /\ last.walks = 1
  /\ last.sinceWalk >= CacheValidityDuration

\* a long fragment located within the window without a traversal
C12_WitnessServed ==
  /\ last.op = "save" /\ last.trace # <<>> /\ Len(last.text) >= ShortLength
  /\ last.walks = 0
  /\ last.sinceWalk \in 0..(CacheValidityDuration - 1)
Resolved == last.op = "resolve"

CandidatesWithText ==
  {i \in 1..Len(last.candidates) :
     Includes(dom[last.candidates[i]].data, last.text)}

\* C13: findBestTextNode returns one of the candidates, by the first rule that
\* applies: a single candidate; else the context scoring when a context was
\* captured, whatever the position; else the position distance when a
\* position was captured; else the first candidate with the text, or the first
C13_PriorityOrder ==
  Resolved =>
    LET c == last.candidates
        ctx == pendingHighlight.surroundingText
        pos == pendingHighlight.textPosition
    IN /\ last.best \in SeqToSet(c)
       /\ Len(c) = 1 => last.best = c[1]
       /\ (Len(c) > 1 /\ ctx # <<>>)
            => last.best = findNodeByContext(dom, c, last.text, ctx)
       /\ (Len(c) > 1 /\ ctx = <<>> /\ pos.has)
            => last.best = findNodeByPosition(dom, c, last.text, pos)
       /\ (Len(c) > 1 /\ ctx = <<>> /\ ~pos.has)
            => last.best = IF CandidatesWithText = {} THEN c[1]
                           ELSE c[Least(CandidatesWithText)]

\* context and position both captured, and they point to different candidates
C13_Witness ==
  /\ Resolved /\ Len(last.candidates) > 1
  /\ pendingHighlight.surroundingText # <<>>
  /\ pendingHighlight.textPosition.has
  /\ last.best # findNodeByPosition(dom, last.candidates, last.text,
                                    pendingHighlight.textPosition)

\* neither captured, and the first candidate does not hold the text
C13_WitnessFirstWithText ==
  /\ Resolved /\ Len(last.candidates) > 1
  /\ pendingHighlight.surroundingText = <<>>
  /\ ~pendingHighlight.textPosition.has
  /\ CandidatesWithText # {} /\ 1 \notin CandidatesWithText

\* the characters of content from 50 before the match to 50 after it
WindowAround(content, index, length) ==
  LET lo == IF index > ContextRadius THEN index - ContextRadius ELSE 0
      hi == IF index + length + ContextRadius < Len(content)
            THEN index + length + ContextRadius ELSE Len(content)
  IN [k \in 1..(hi - lo) |-> content[lo + k]]

WindowScore(i) ==
  LET content == dom[last.candidates[i]].data
  IN calculateContextSimilarity(
       pendingHighlight.surroundingText,
       WindowAround(content, IndexOfText(content, last.text), Len(last.text)))

\* the order of two scores given as fractions
Higher(a, b) == a.num * b.den > b.num * a.den

ContextResolved ==
  /\ Resolved /\ Len(last.candidates) > 1
  /\ pendingHighlight.surroundingText # <<>>
  /\ CandidatesWithText = 1..Len(last.candidates)

\* C14: with a captured context and several candidates, the candidate returned
\* has the highest score of its 50-character window, and is the earliest
\* candidate with that score
C14_BestScoreWins ==
  ContextResolved =>
    \E i \in 1..Len(last.candidates) :
      /\ last.best = last.candidates[i]
      /\ \A j \in 1..Len(last.candidates) :
           ~Higher(WindowScore(j), WindowScore(i))
      /\ \A j \in 1..(i - 1) : Higher(WindowScore(i), WindowScore(j))

\* two candidates share the highest, positive score; one of them is the long
\* leaf whose text beyond the window would have scored higher
C14_Witness ==
  /\ ContextResolved
  /\ \E i, j \in 1..Len(last.candidates) :
       /\ i < j /\ last.best = last.candidates[i]
       /\ WindowScore(i).num > 0
       /\ WindowScore(i) = WindowScore(j)
       /\ TxtLong \in {dom[last.candidates[i]].data, dom[last.candidates[j]].data}

\* every candidate scores 0
C14_WitnessAllZero ==
  /\ ContextResolved
  /\ \A i \in 1..Len(last.candidates) : WindowScore(i).num = 0
  /\ last.best = last.candidates[1]

WordsOf(str) == SplitWhitespace(ToLowerCase(str))

\* C15: the score of calculateContextSimilarity is the number of distinct
\* words that the two contexts share, divided by the larger of the two word
\* counts, and lies between 0 and 1
C15_ScoreIsSetOverlap ==
  (Resolved /\ Len(last.candidates) > 1 /\ pendingHighlight.surroundingText # <<>>)
  =>
    \A i \in CandidatesWithText :
      LET content == dom[last.candidates[i]].data
          a == WordsOf(pendingHighlight.surroundingText)
          b == WordsOf(WindowAround(content, IndexOfText(content, last.text),
                                    Len(last.text)))
          shared == Cardinality(SeqToSet(a) \cap SeqToSet(b))
          larger == IF Len(a) >= Len(b) THEN Len(a) ELSE Len(b)
      IN /\ last.scores[i].num * larger = shared * last.scores[i].den
         /\ 0 <= last.scores[i].num /\ last.scores[i].num <= last.scores[i].den

Measurable ==
  {i \in CandidatesWithText : Contains(dom, last.candidates[i])}

SquareDistance(i) ==
  LET dt == RectTop(dom, last.candidates[i]) - pendingHighlight.textPosition.top
      dl == 0 - pendingHighlight.textPosition.left
  IN dt * dt + dl * dl

\* C16: with a captured position and no context, the candidate returned is the
\* measurable candidate nearest to the position, the earliest on ties; a
\* candidate that cannot be measured does not win
C16_NearestMeasurableWins ==
  ( /\ Resolved /\ Len(last.candidates) > 1
    /\ pendingHighlight.surroundingText = <<>>
    /\ pendingHighlight.textPosition.has
    /\ Measurable # {} )
  => \E i \in Measurable :
       /\ last.best = last.candidates[i]
       /\ \A j \in Measurable : SquareDistance(i) <= SquareDistance(j)
       /\ \A j \in Measurable : j < i => SquareDistance(i) < SquareDistance(j)
\* the entries of a store, as a set
EntriesOf(cache) == {cache[i] : i \in 1..Len(cache)}

\* C17: after any sequence of cache writes and sweeps the summary store holds
\* at most 20 entries and the node/candidate store at most 50.
C17_StoresWithinBounds ==
  /\ Len(summaryCache) <= MaxSummaryCacheSize
  /\ Len(textNodeMap) <= MaxTextNodesCache

Swept == last.op = "sweep"

\* no entry of either store was written longer ago than its validity window
NothingStale ==
  /\ \A e \in EntriesOf(textNodeMap) : now - e.written <= CacheValidityDuration
  /\ \A e \in EntriesOf(summaryCache) : now - e.written <= SummaryValidity

\* C18: immediately after every sweep no entry older than the validity window
\* of its store remains and each store is at or under its bound, whatever the
\* distribution of the timestamps.
C18_SweepPostcondition ==
  Swept => (NothingStale /\ C17_StoresWithinBounds)

\* the size half of C18 alone: after a sweep both stores are within bounds
C18_SweptWithinBounds == Swept => C17_StoresWithinBounds

\* C19: when the sweep evicts entries because a store exceeds its bound, no
\* evicted entry was written later than an entry retained in that store.
C19_EvictsOldestWritten ==
  Swept =>
    /\ \A e \in EntriesOf(last.evicted.nodes) :
         \A r \in EntriesOf(textNodeMap) : e.written <= r.written
    /\ \A e \in EntriesOf(last.evicted.summaries) :
         \A r \in EntriesOf(summaryCache) : e.written <= r.written

\* a sweep of the summary store that evicted for size and kept entries
C19_SummariesEvicted ==
  Swept /\ last.evicted.summaries # <<>> /\ summaryCache # <<>>

Ceiling(n, k) == (n + k - 1) \div k

\* a run of processInChunks that processed every item of its list
Completed ==
  /\ last.op \in {"run", "callback"}
  /\ batches = <<>>
  /\ last.processed = last.n

\* C20 as stated: processInChunks over n items with chunk size 5 yields to the
\* host scheduler once per chunk, exactly ceil(n/5) times before completion.
C20_YieldsOncePerChunk ==
  Completed => last.yields = Ceiling(last.n, ChunkSize)

\* C20 as the code has it: processInChunks yields once between consecutive
\* chunks, never before the first chunk or after the last one: a run over
\* n > 0 items has yielded exactly ceil(n/5) - 1 times when it completes, a run
\* over no items never yields, and no run yields more often.
C20_YieldsBetweenChunks ==
  last.op \in {"run", "callback"} =>
    /\ last.yields <= (IF last.n = 0 THEN 0 ELSE Ceiling(last.n, ChunkSize) - 1)
    /\ Completed =>
         last.yields = (IF last.n = 0 THEN 0 ELSE Ceiling(last.n, ChunkSize) - 1)

\* a completed run over 23 items: 5 chunks, 4 yields
C20_Witness ==
  /\ Completed
  /\ last.n = 23
  /\ last.chunks = 5
  /\ last.yields = 4

\* a completed run over a whole number of chunks
C20_WitnessFullChunks ==
  Completed /\ last.n = 2 * ChunkSize /\ last.yields = 1

\* a run of processInChunks, at its first chunk or at a later one
InRun == last.op \in {"run", "callback"}

C21_WitnessFullChunk ==
  InRun /\ last.sync = ChunkSize /\ batches # <<>>

\* C22: provided the host eventually runs every scheduled callback, a call of
\* processInChunks eventually applies the processor to all items of the list,
\* also when the processing of an individual item fails.
C22_EveryItemEventuallyApplied ==
  InRun ~> (Len(last.applied) = last.n)

\* C23: at any time at most one batch run has unprocessed chunks pending, so
\* the chunks of two re-renders are never interleaved.
C23_OneRunPending == Len(batches) <= 1

\* C24: the wrapped handler is invoked only after 150 ms have passed without
\* a newer accepted event, any two consecutive invocations are at least
\* 100 ms apart, and an event arriving less than 100 ms after the last
\* invocation does not start a new deferred call.
C24_DebounceTiming ==
  /\ last.op = "invoke" =>
       /\ last.waited >= SelectionThrottleDelay
       /\ last.event = LastOf(selectionLog.accepted).event
  /\ \A i \in 2..Len(selectionLog.invoked) :
       selectionLog.invoked[i].at - selectionLog.invoked[i - 1].at
         >= MinSelectionInterval
  /\ (last.op = "event" /\ last.sinceInvoke # -1
        /\ last.sinceInvoke < MinSelectionInterval) => ~last.started

\* an event that arrived 50 ms after an invocation and was dropped
C24_Witness ==
  /\ last.op = "event"
  /\ last.sinceInvoke = 1
  /\ ~last.started
  /\ timers = {}

\* a second invocation, for an event accepted after the first one
C24_WitnessSecondInvocation ==
  last.op = "invoke" /\ Len(selectionLog.invoked) = 2

\* an invocation for an event that superseded an earlier accepted event
C24_WitnessSuperseded ==
  /\ last.op = "invoke"
  /\ last.event = 2
  /\ Len(selectionLog.accepted) = 2
  /\ selectionLog.invoked = <<[event |-> 2, at |-> clock]>>

\* C25: at most one deferred selection callback is pending at any time; when
\* a newer event is accepted the previously pending callback is cancelled and
\* never fires; cleanup() cancels a pending callback, so the handler is not
\* invoked afterwards for an earlier event.
C25_Supersession ==
  /\ Cardinality(timers) <= 1
  /\ \A i \in 1..Len(selectionLog.invoked) :
       \A j \in 1..Len(selectionLog.accepted) :
         selectionLog.accepted[j].event > selectionLog.invoked[i].event
           => selectionLog.accepted[j].at > selectionLog.invoked[i].at
  /\ last.op = "invoke" => last.event \notin selectionLog.retired

\* cleanup() run while the callback of an accepted event was pending
C25_Witness ==
  /\ last.op = "cleanup"
  /\ Len(selectionLog.accepted) = 1
  /\ selectionLog.retired = {1}
  /\ selectionLog.invoked = <<>>
  /\ timers = {}
  /\ clock >= StartClock + SelectionThrottleDelay

\* a second accepted event while the callback of the first one was pending
C25_WitnessSuperseded ==
  /\ last.op = "event"
  /\ last.started
  /\ Len(selectionLog.accepted) = 2
  /\ selectionLog.invoked = <<>>
  /\ Cardinality(timers) = 1

\* an invocation for an event that came after a cleanup
C25_WitnessAfterCleanup ==
  last.op = "invoke" /\ selectionLog.retired # {}

InFlightIds == {c.id : c \in calls}

\* C26: for every interleaving of summarize requests at most one collaborator
\* call is in flight per fingerprint key, every request issued while that
\* call is in flight receives that call's outcome, and the in-flight entry is
\* removed once the call settles.
C26_OneCallPerKey ==
  /\ \A c1, c2 \in calls : c1.key = c2.key => c1 = c2
  /\ \A i \in 1..Len(summaryLog.requests) :
       \E r \in {summaryLog.requests[i]} :
         /\ r.inFlight # {} => (~r.own /\ r.call \in r.inFlight)
         /\ r.outcome = "pending" <=> r.call \in InFlightIds
         /\ r.outcome \in {"result", "failure"}
              => r.outcome = summaryLog.outcome[r.call]
  /\ \A k \in DOMAIN apiRequestQueue :
       \E c \in calls : c.id = apiRequestQueue[k] /\ c.key = k

\* two requests for one key shared a call that failed, and a later request
\* for the key made a call of its own
C26_Witness ==
  /\ Len(summaryLog.requests) = 3
  /\ \A i \in 1..3 : summaryLog.requests[i].key = 1
  /\ summaryLog.requests[1].own /\ summaryLog.requests[1].outcome = "failure"
  /\ ~summaryLog.requests[2].own /\ summaryLog.requests[2].outcome = "failure"
  /\ summaryLog.requests[2].call = summaryLog.requests[1].call
  /\ summaryLog.requests[3].own
  /\ summaryLog.requests[3].call # summaryLog.requests[1].call

\* calls for two keys in flight at once, one of them shared
C26_WitnessTwoKeys ==
  /\ Cardinality(calls) = 2
  /\ Cardinality(waiting) = 3

\* a summarize request for a key whose summary was cached before
AskedAgain == last.op = "summarize" /\ last.sinceCached # -1

\* C27 as stated: a successfully obtained summary is returned from the cache,
\* without a new collaborator call, for every same-fingerprint request made
\* less than 5 minutes after it was cached, and a request made 5 minutes or
\* more afterwards is not answered from that cache entry.
C27_ServedWithinValidity ==
  AskedAgain =>
    /\ last.sinceCached < SummaryValidity => (last.served /\ ~last.newCall)
    /\ last.sinceCached >= SummaryValidity => ~last.served

\* C27 as the code has it: the same, for as long as the entry is in the
\* store; the cleanup timer evicts entries beyond the bound of the store
\* before they expire.
C27_ServedWhileStored ==
  AskedAgain =>
    /\ (last.sinceCached < SummaryValidity /\ last.inStore)
         => (last.served /\ ~last.newCall)
    /\ last.sinceCached >= SummaryValidity => ~last.served
    /\ last.served => last.inStore

\* a request 4 minutes 30 seconds after the summary was cached, served
C27_Witness ==
  /\ AskedAgain
  /\ last.sinceCached = SummaryValidity - 1
  /\ last.served

\* a request exactly 5 minutes after the summary was cached, with the entry
\* still in the store: a new call
C27_WitnessExpired ==
  /\ AskedAgain
  /\ last.sinceCached = SummaryValidity
  /\ last.inStore
  /\ last.newCall

\* a request within 5 minutes for a summary that the cleanup timer evicted
C27_WitnessEvicted ==
  /\ AskedAgain
  /\ last.sinceCached < SummaryValidity
  /\ ~last.inStore
  /\ last.newCall

\* the summarize requests that made a call of their own
OwnRequests ==
  {i \in 1..Len(summaryLog.requests) : summaryLog.requests[i].own}

C29_BoundedRetry ==
  /\ Len(retry.checks) = retry.attempts
  /\ retry.attempts <= MaxAttempts
  /\ \A i \in 1..Len(retry.checks) :
       /\ retry.checks[i].at >=
            (IF i = 1 THEN retry.calledAt ELSE retry.checks[i - 1].at)
            + RetryDelay
       /\ retry.checks[i].present => i = Len(retry.checks)
  /\ retry.callbacks =
       Cardinality({i \in 1..Len(retry.checks) : retry.checks[i].present})
  /\ retry.callbacks <= 1
  /\ (retry.callbacks = 1 \/ retry.attempts = MaxAttempts) => ~retry.armed
  /\ retry.armed =>
       retry.due = (IF retry.checks = <<>> THEN retry.calledAt
                    ELSE retry.checks[Len(retry.checks)].at) + RetryDelay
  /\ last.op = "check" => last.called = last.present

\* the text never appeared: five checks were made, none is pending and the
\* callback never ran
C29_Witness ==
  /\ retry.attempts = MaxAttempts
  /\ retry.callbacks = 0
  /\ ~retry.armed

\* the text appeared between two checks and the callback ran at the third
C29_WitnessFoundLater ==
  /\ retry.attempts = 3
  /\ retry.callbacks = 1
  /\ last.op = "check"
  /\ last.called

\* a hash without a highlight parameter schedules nothing
C29_WitnessNoParameter ==
  /\ counts.fragments = 1
  /\ retry.attempts = 0
  /\ ~retry.armed
  /\ clock = MaxRetryClock

\* C30: right after cleanup() every cache of the engine is empty: the node
\* index, the candidate cache, the summary cache and the map of requests in
\* flight.
C30_CachesEmptyAfterCleanup ==
  last.op = "cleanup" =>
    /\ ~nodeIndex.has
    /\ textNodeCache = EmptyMap
    /\ summaryCache = <<>>
    /\ apiRequestQueue = <<>>

\* the operation of a request runs to its end: the action is known, its
\* arguments pass the validation and no awaited call rejected
Completes(request) ==
  /\ request.action \in KnownActions
  /\ request.valid
  /\ request.action = "deleteHighlight" => request.id # 0
  /\ ~request.threw

Running(r) == \E h \in handlers : h.req = r

ResponseFits(r) ==
  /\ Len(responses[r]) <= 1
  /\ Running(r) <=> responses[r] = <<>>
  /\ responses[r] # <<>> =>
       /\ responses[r][1].success <=> Completes(bgLog.requests[r])
       /\ ~responses[r][1].success => responses[r][1].error # ""
       /\ bgLog.requests[r].action \notin KnownActions =>
            responses[r][1].error = "Unknown action"

\* C31: handleMessage sends at most one response per request and exactly
\* one once the run of the request is over, with success true when the
\* operation ran to its end and with success false and an error message when
\* it threw or the action is unknown; every request received is eventually
\* answered when the awaited calls settle.
C31_EveryRequestAnswered ==
  /\ [](\A r \in 1..Len(responses) : ResponseFits(r))
  /\ \A r \in 1..MaxMessages :
       (Len(responses) >= r) ~> (Len(responses) >= r /\ Len(responses[r]) = 1)

\* a request whose awaited call rejected was answered with a failure
C31_Witness ==
  \E r \in 1..Len(responses) :
    /\ bgLog.requests[r].threw
    /\ Len(responses[r]) = 1
    /\ ~responses[r][1].success

\* an unknown action was answered with a failure, a save with success
C31_WitnessUnknownAndSuccess ==
  \E r, q \in 1..Len(responses) :
    /\ bgLog.requests[r].action = "cleanupHighlights"
    /\ responses[r] = <<Failure("Unknown action")>>
    /\ bgLog.requests[q].action = "saveHighlight"
    /\ responses[q] = <<Success>>

\* a stored highlight is more than 365 days old
OldStored == \E i \in 1..Len(stored) : day - stored[i].timestamp > DaysToKeep

\* C32: a stored highlight that is more than 365 days old is eventually
\* removed from storage.
C32_OldHighlightsEventuallyRemoved == OldStored ~> ~OldStored

\* C34: every highlight whose save was answered with success is in the
\* stored list, unless its deletion was requested or a save cut it off at the
\* 1000-entry cap.
C34_NoLostUpdate ==
  (bgLog.acknowledged \ (bgLog.deleted \cup bgLog.cut)) \subseteq IdsOf(stored)

\* a markExistingHighlights run has come to its end
RenderEnded == last.op \in {"render", "chunk"} /\ batches = <<>>

\* C33: at the end of every markExistingHighlights run, each fragment saved
\* and marked earlier in this page session has a marker on the page.
C33_SessionSavesStayMarked ==
  RenderEnded => \A id \in counts.saved : MarkersOfId(dom, id) # {}

\* C35: the persistence calls made never outnumber the presses of the Save
\* button.
C35_OneSavePerPress == nextId - FirstNewId <= counts.mousedowns

ResultOkClaimed(outcome) == outcome = "success"

\* a save settles with another outcome than a successful response
SaveFails ==
  /\ Len(inFlight') = Len(inFlight) - 1
  /\ ~ResultOkClaimed(last'.outcome)

\* C36: a save that settles by a rejection, a response without success or
\* the timeout leaves the document, the markers and pendingHighlight as they
\* were and shows an error; no marker carries the identifier of a save that
\* has not been answered.
C36_FailedSaveLeavesPage ==
  /\ [](\A i \in 1..Len(inFlight) : MarkersOfId(dom, inFlight[i].id) = {})
  /\ [][SaveFails =>
          /\ dom' = dom
          /\ savedHighlights' = savedHighlights
          /\ pendingHighlight' = pendingHighlight
          /\ last'.feedback = "error"
          /\ last'.message # ""]_vars

\* a save timed out while its selection was pending: no marker, the
\* selection still pending
C36_Witness ==
  /\ last.op = "savefailed"
  /\ last.outcome = "timeout"
  /\ pendingHighlight.has
  /\ MarkersOfId(dom, last.id) = {}

\* a save answered with success created its marker
C36_WitnessSuccess ==
  /\ last.op = "save"
  /\ last.outcome = "success"
  /\ MarkersOfId(dom, last.id) # {}

\* the request that made the call request j joined, or whose cached summary
\* request j was answered with: 0 when j made its own call
SharedWith(j) ==
  LET r == summaryLog.requests
      Owners == IF r[j].own THEN {}
                ELSE IF r[j].call # 0
                THEN {i \in 1..(j - 1) : r[i].own /\ r[i].call = r[j].call}
                ELSE {i \in 1..(j - 1) : /\ r[i].own
                                         /\ r[i].key = r[j].key
                                         /\ r[i].outcome = "result"}
  IN IF Owners = {} THEN 0 ELSE CHOOSE i \in Owners : \A k \in Owners : k <= i

\* C37: a request that is answered from a cache entry or joins a call in
\* flight shares it with a request for a highlight of the same text, url and
\* title.
C37_SharedOnlyBetweenEqualHighlights ==
  \A j \in 1..Len(summaryLog.requests) :
    SharedWith(j) # 0 =>
      summaryLog.requests[SharedWith(j)].highlight
        = summaryLog.requests[j].highlight


\* C38: marking and unmarking preserve the document text: after a re-render
\* (removeExistingHighlightsBatch followed by markTextInNode on every
\* candidate) and after every later chunk of it, the text content of the body
\* in document order is what it was before.
C38_MarkingKeepsDocumentText ==
  last.op \in {"render", "chunk"} => last.textKept


\* C39: no selection change is lost by the debouncer: for every selection
\* event, the handler is eventually invoked at or after that event, that is
\* for that event or for one that arrived later.
InvokedSince(e) ==
  \E i \in 1..Len(selectionLog.invoked) : selectionLog.invoked[i].event >= e

C39_NoSelectionLost ==
  \A e \in 1..MaxEvents : (counts.events >= e) ~> InvokedSince(e)


\* C40: candidates are live: every leaf that findTextNodesOptimized returns,
\* and every leaf of a candidate list that is given to markTextInNode, is
\* inside the document at that moment.
C40_CandidatesAttached == last.stale = {}

====
